---------------------------- MODULE Spec2Model ----------------------------
(***************************************************************************)
(* A model of sleep_kit's normalisation core:                              *)
(*   - sleep_kit.annotation : the hypnogram readers and load_annotation    *)
(*   - sleep_kit.utils      : table-driven channel resolution              *)
(* Text is modelled as Python sees it: a string is a sequence of           *)
(* one-character strings, a file is the list readlines() returns (every    *)
(* line keeps its trailing newline), and strip/split/find/int/float are    *)
(* computed character by character.                                        *)
(***************************************************************************)
EXTENDS Integers, Sequences, FiniteSets, TLC

(***************************************************************************)
(* Bounds of the model.                                                    *)
(***************************************************************************)
\* longest annotation file explored, in lines
MaxLines == 3
\* most records after the header in the HMC session files explored
MaxRecords == 4
\* longest raw channel list explored
MaxRawChns == 3

(***************************************************************************)
(* Python str primitives on sequences of characters.                       *)
(***************************************************************************)
NL == "\n"
TAB == "\t"
CR == "\r"

\* the characters str.strip() removes when called without argument
Whitespace == {" ", TAB, NL, CR}

RECURSIVE LStripChars(_, _)
LStripChars(s, chars) ==
    IF s # <<>> /\ Head(s) \in chars THEN LStripChars(Tail(s), chars) ELSE s

RECURSIVE RStripChars(_, _)
RStripChars(s, chars) ==
    IF s # <<>> /\ s[Len(s)] \in chars
    THEN RStripChars(SubSeq(s, 1, Len(s) - 1), chars)
    ELSE s

\* str.strip(chars)
StripChars(s, chars) == RStripChars(LStripChars(s, chars), chars)

\* str.strip()
Strip(s) == StripChars(s, Whitespace)

\* s.find(sub): the lowest 0-based index where sub occurs, -1 when it does not
Find(s, sub) ==
    LET hits == {i \in 0..(Len(s) - Len(sub)) : SubSeq(s, i + 1, i + Len(sub)) = sub}
    IN  IF hits = {} THEN -1 ELSE CHOOSE i \in hits : \A j \in hits : i <= j

\* sub in s
Contains(sub, s) == Find(s, sub) # -1

\* s[n:]
From(s, n) == IF n >= Len(s) THEN <<>> ELSE SubSeq(s, n + 1, Len(s))

\* s.split(sep) with a non-empty separator
RECURSIVE Split(_, _)
Split(s, sep) ==
    LET i == Find(s, sep)
    IN  IF i = -1 THEN <<s>>
        ELSE <<SubSeq(s, 1, i)>> \o Split(From(s, i + Len(sep)), sep)

\* s.count(sub): non-overlapping occurrences
RECURSIVE Count(_, _)
Count(s, sub) ==
    LET i == Find(s, sub)
    IN  IF i = -1 THEN 0 ELSE 1 + Count(From(s, i + Len(sub)), sub)

UpperLetters == <<"A","B","C","D","E","F","G","H","I","J","K","L","M",
                  "N","O","P","Q","R","S","T","U","V","W","X","Y","Z">>
LowerLetters == <<"a","b","c","d","e","f","g","h","i","j","k","l","m",
                  "n","o","p","q","r","s","t","u","v","w","x","y","z">>
Digits == <<"0","1","2","3","4","5","6","7","8","9">>

IndexIn(c, letters) ==
    IF \E i \in 1..Len(letters) : letters[i] = c
    THEN CHOOSE i \in 1..Len(letters) : letters[i] = c
    ELSE 0

LowerChar(c) == IF IndexIn(c, UpperLetters) # 0 THEN LowerLetters[IndexIn(c, UpperLetters)] ELSE c
UpperChar(c) == IF IndexIn(c, LowerLetters) # 0 THEN UpperLetters[IndexIn(c, LowerLetters)] ELSE c

\* s.lower(), s.upper()
Lower(s) == [i \in 1..Len(s) |-> LowerChar(s[i])]
Upper(s) == [i \in 1..Len(s) |-> UpperChar(s[i])]

IsDigit(c) == IndexIn(c, Digits) # 0

RECURSIVE DigitsValue(_)
DigitsValue(s) ==
    IF s = <<>> THEN 0
    ELSE 10 * DigitsValue(SubSeq(s, 1, Len(s) - 1)) + (IndexIn(s[Len(s)], Digits) - 1)

AllDigits(s) == s # <<>> /\ \A i \in 1..Len(s) : IsDigit(s[i])

Unsigned(s) == IF s # <<>> /\ Head(s) \in {"+", "-"} THEN Tail(s) ELSE s
Sign(s) == IF s # <<>> /\ Head(s) = "-" THEN -1 ELSE 1

\* int(s), for the notations of decimal integers without underscores:
\* surrounding whitespace, one sign and digits; anything else raises ValueError
IntOk(s) == AllDigits(Unsigned(Strip(s)))
IntValue(s) == Sign(Strip(s)) * DigitsValue(Unsigned(Strip(s)))

\* float(s), for the decimal notations digits, digits. , .digits and
\* digits.digits with one optional sign (no exponent, inf or nan); the value
\* is kept exactly, as the fraction FloatNum(s) / FloatDen(s)
FloatParts(s) == Split(Unsigned(Strip(s)), <<".">>)
FloatOk(s) ==
    LET p == FloatParts(s)
    IN  \/ Len(p) = 1 /\ AllDigits(p[1])
        \/ /\ Len(p) = 2
           /\ p[1] \o p[2] # <<>>
           /\ \A i \in 1..Len(p[1]) : IsDigit(p[1][i])
           /\ \A i \in 1..Len(p[2]) : IsDigit(p[2][i])
FloatNum(s) ==
    LET p == FloatParts(s)
    IN  Sign(Strip(s)) * DigitsValue(IF Len(p) = 2 THEN p[1] \o p[2] ELSE p[1])
FloatDen(s) ==
    LET p == FloatParts(s)
    IN  IF Len(p) = 2 THEN 10 ^ Len(p[2]) ELSE 1

(***************************************************************************)
(* The stage tables of sleep_kit.annotation and the lines the model draws  *)
(* annotation files from.                                                  *)
(***************************************************************************)
\* dic (annotation.py:32): Profusion / MASS / general-purpose mapping
dic ==
       (<<"?">> :> 5)
    @@ (<<"W">> :> 0)
    @@ (<<"1">> :> 1)
    @@ (<<"2">> :> 2)
    @@ (<<"3">> :> 3)
    @@ (<<"4">> :> 3)
    @@ (<<"R">> :> 4)

\* dic2 (annotation.py:35): NSRR Profusion XML mapping
dic2 ==
       (<<"5">> :> 4)
    @@ (<<"0">> :> 0)
    @@ (<<"1">> :> 1)
    @@ (<<"2">> :> 2)
    @@ (<<"3">> :> 3)
    @@ (<<"4">> :> 3)
    @@ (<<"9">> :> 5)
    @@ (<<"6">> :> 5)

\* stage_dict of eannot (annotation.py:180-183)
eannot_stage_dict ==
       (<<"w","a","k","e">> :> 0)
    @@ (<<"N","1">> :> 1)
    @@ (<<"N","w","a","k","e">> :> 1)
    @@ (<<"N","2">> :> 2)
    @@ (<<"N","3">> :> 3)
    @@ (<<"N","4">> :> 3)
    @@ (<<"R","E","M">> :> 4)
    @@ (<<"u","n","s","c","o","r","e","d">> :> 5)
    @@ (<<"9">> :> 5)
    @@ (<<" ">> :> 5)
    @@ (<<"8">> :> 2)
    @@ (<<"N","N","1">> :> 1)
    @@ (<<"N","N","2">> :> 2)
    @@ (<<"N","N","3">> :> 3)
    @@ (<<"N","a","N">> :> 5)

\* ann_dict of stages_csv (annotation.py:209-212)
ann_dict ==
       (<<" ","W","a","k","e">> :> 0)
    @@ (<<" ","S","t","a","g","e","1">> :> 1)
    @@ (<<" ","S","t","a","g","e","2">> :> 2)
    @@ (<<" ","S","t","a","g","e","3">> :> 3)
    @@ (<<" ","R","E","M">> :> 4)
    @@ (<<" ","S","T","A","G","E","4">> :> 3)
    @@ (<<" ","U","n","k","n","o","w","n","S","t","a","g","e">> :> 5)

\* stage_dict of dcsm_ids (annotation.py:248)
dcsm_stage_dict ==
       (<<"W">> :> 0)
    @@ (<<"N","1">> :> 1)
    @@ (<<"N","2">> :> 2)
    @@ (<<"N","3">> :> 3)
    @@ (<<"R","E","M">> :> 4)

\* stage_dict of tsv (annotation.py:284-291)
tsv_stage_dict ==
       (<<"s","l","e","e","p"," ","s","t","a","g","e"," ","w">> :> 0)
    @@ (<<"s","l","e","e","p"," ","s","t","a","g","e"," ","w","a","k","e">> :> 0)
    @@ (<<"s","l","e","e","p"," ","s","t","a","g","e"," ","n","1">> :> 1)
    @@ (<<"s","l","e","e","p"," ","s","t","a","g","e"," ","1">> :> 1)
    @@ (<<"s","l","e","e","p"," ","s","t","a","g","e"," ","n","2">> :> 2)
    @@ (<<"s","l","e","e","p"," ","s","t","a","g","e"," ","2">> :> 2)
    @@ (<<"s","l","e","e","p"," ","s","t","a","g","e"," ","n","3">> :> 3)
    @@ (<<"s","l","e","e","p"," ","s","t","a","g","e"," ","3">> :> 3)
    @@ (<<"s","l","e","e","p"," ","s","t","a","g","e"," ","4">> :> 3)
    @@ (<<"s","l","e","e","p"," ","s","t","a","g","e"," ","r">> :> 4)
    @@ (<<"s","l","e","e","p"," ","s","t","a","g","e"," ","r","e","m">> :> 4)
    @@ (<<"s","l","e","e","p"," ","s","t","a","g","e"," ","?">> :> 5)

\* stage_dict of hmc_txt (annotation.py:345-348)
hmc_stage_dict ==
       (<<"s","l","e","e","p"," ","s","t","a","g","e"," ","w">> :> 0)
    @@ (<<"s","l","e","e","p"," ","s","t","a","g","e"," ","n","1">> :> 1)
    @@ (<<"s","l","e","e","p"," ","s","t","a","g","e"," ","n","2">> :> 2)
    @@ (<<"s","l","e","e","p"," ","s","t","a","g","e"," ","n","3">> :> 3)
    @@ (<<"s","l","e","e","p"," ","s","t","a","g","e"," ","r">> :> 4)

\* stage_dict of wsc_txt (annotation.py:384)
wsc_stage_dict ==
       (<<"0">> :> 0)
    @@ (<<"1">> :> 1)
    @@ (<<"2">> :> 2)
    @@ (<<"3">> :> 3)
    @@ (<<"4">> :> 3)
    @@ (<<"5">> :> 4)
    @@ (<<"7">> :> 5)
    @@ (<<"6">> :> 5)

\* the header mass_txt expects (annotation.py:106)
MassHeader == <<"O","n","s","e","t",",","D","u","r","a","t","i","o","n",",","A","n","n","o","t","a","t","i","o","n">>

StageWord == <<"s","t","a","g","e">>

SleepStageWords == <<"S","l","e","e","p"," ","s","t","a","g","e">>

LightsOn == <<"l","i","g","h","t","s"," ","o","n">>

LightsOff == <<"l","i","g","h","t","s"," ","o","f","f">>

\* lines of MASS event logs
MassLines == {
    \* the header
    <<"O","n","s","e","t",",","D","u","r","a","t","i","o","n",",","A","n","n","o","t","a","t","i","o","n","\n">>,
    \* a stage record whose token is in dic
    <<"0",",","3","0",",","S","l","e","e","p"," ","s","t","a","g","e"," ","W","\n">>,
    \* a stage record whose final token is not in dic
    <<"3","0",",","3","0",",","S","l","e","e","p"," ","s","t","a","g","e"," ","X","\n">>,
    \* a stage record whose onset is not a number
    <<"x",",","3","0",",","S","l","e","e","p"," ","s","t","a","g","e"," ","2","\n">>,
    \* an event that is no stage
    <<"6","0",",","3",",","A","r","o","u","s","a","l","\n">>,
    \* an empty line
    <<"\n">>
}

\* lines of SAF hypnograms
SafLines == {
    \* two stage events on one line
    <<"S","l","e","e","p"," ","s","t","a","g","e"," ","W",";","S","l","e","e","p"," ","s","t","a","g","e"," ","2","\n">>,
    \* a stage event whose character is not in dic
    <<"S","l","e","e","p"," ","s","t","a","g","e"," ","X","\n">>,
    \* a stage marker with nothing after it
    <<"S","l","e","e","p"," ","s","t","a","g","e">>,
    \* no stage marker
    <<"A","r","o","u","s","a","l","\n">>
}

\* lines of EANNOT files
EannotLines == {
    \* a stage token
    <<"w","a","k","e","\n">>,
    \* a stage token
    <<"N","2","\n">>,
    \* the unscored token
    <<"u","n","s","c","o","r","e","d","\n">>,
    \* the blank token: one space
    <<" ","\n">>,
    \* a sentinel token
    <<"9","\n">>,
    \* an empty line
    <<"\n">>,
    \* a stage token followed by a space: not in the table
    <<"N","2"," ","\n">>
}

\* lines of STAGES csv files
StagesLines == {
    \* a header row
    <<"S","t","a","r","t",",","D","u","r","a","t","i","o","n",","," ","E","v","e","n","t","\n">>,
    \* three epochs of N2
    <<"0",",","9","0",","," ","S","t","a","g","e","2","\n">>,
    \* duration 0
    <<"9","0",",","0",","," ","W","a","k","e","\n">>,
    \* a negative duration
    <<"9","0",",","-","3","0",","," ","W","a","k","e","\n">>,
    \* a positive duration shorter than an epoch
    <<"9","0",",","1","0",","," ","R","E","M","\n">>,
    \* a fractional duration
    <<"1","0","0",",","4","5",".","5",","," ","S","t","a","g","e","1","\n">>,
    \* a duration that is not a number
    <<"0",",","x",","," ","W","a","k","e","\n">>
}

\* lines of DCSM ids files
DcsmLines == {
    \* a header row
    <<"s","t","a","r","t",",","d","u","r","a","t","i","o","n",",","s","t","a","g","e","\n">>,
    \* three epochs of N2
    <<"0",",","9","0",",","N","2","\n">>,
    \* duration 0
    <<"9","0",",","0",",","W","\n">>,
    \* a negative duration
    <<"9","0",",","-","3","0",",","W","\n">>,
    \* one epoch and a half
    <<"9","0",",","4","5",",","R","E","M","\n">>,
    \* a stage that is not in the table
    <<"0",",","3","0",",","X","X","\n">>,
    \* a duration that is not a number
    <<"0",",","x",",","W","\n">>
}

\* lines of TSV event files
TsvLines == {
    \* the header row
    <<"o","n","s","e","t","\t","d","u","r","a","t","i","o","n","\t","d","e","s","c","r","i","p","t","i","o","n","\n">>,
    \* a stage row
    <<"0","\t","3","0","\t","S","l","e","e","p"," ","s","t","a","g","e"," ","W","\n">>,
    \* a stage row in another case, padded
    <<"3","0","\t","3","0","\t"," ","S","l","e","e","p"," ","S","t","a","g","e"," ","N","2"," ","\n">>,
    \* an event that is no stage
    <<"6","0","\t","3","0","\t","A","r","o","u","s","a","l","\n">>,
    \* a row with two fields
    <<"9","0","\t","3","0","\n">>
}

\* lines of HMC event files
HmcLines == {
    \* the header row
    <<"D","a","t","e",","," ","T","i","m","e",","," ","R","e","c","o","r","d","i","n","g"," ","o","n","s","e","t",","," ","D","u","r","a","t","i","o","n",","," ","A","n","n","o","t","a","t","i","o","n","\n">>,
    \* a stage record
    <<"d",","," ","t",","," ","0",","," ","3","0",","," ","S","l","e","e","p"," ","s","t","a","g","e"," ","W","\n">>,
    \* a stage record
    <<"d",","," ","t",","," ","3","0",","," ","3","0",","," ","S","l","e","e","p"," ","s","t","a","g","e"," ","N","2","\n">>,
    \* the lights-off marker
    <<"d",","," ","t",","," ","0",","," ","0",","," ","L","i","g","h","t","s"," ","o","f","f","@","@","E","E","G","\n">>,
    \* the lights-on marker
    <<"d",","," ","t",","," ","6","0",","," ","0",","," ","L","i","g","h","t","s"," ","o","n","@","@","E","E","G","\n">>,
    \* an event that is no stage
    <<"d",","," ","t",","," ","6","0",","," ","3",","," ","A","r","o","u","s","a","l","\n">>,
    \* a row with two fields
    <<"d",","," ","L","i","g","h","t","s"," ","o","n","\n">>
}

\* lines of WSC stage files
WscLines == {
    \* the header row
    <<"E","p","o","c","h","\t","S","t","a","g","e","\n">>,
    \* wake
    <<"1","\t","0","\n">>,
    \* REM
    <<"2","\t","5","\n">>,
    \* unscored
    <<"3","\t","7","\n">>,
    \* a code that is not in the table
    <<"4","\t","8","\n">>,
    \* a row with one field
    <<"5","\n">>
}

\* texts of SleepStage elements
XmlTexts == {
    \* wake
    <<"0">>,
    \* REM
    <<"5">>,
    \* unscored
    <<"9">>,
    \* a code that is not in dic2
    <<"7">>
}


\* the header row of each format that has one, as a line of the file
MassHeaderRow == MassHeader \o <<NL>>
StagesHeaderRow == <<"S","t","a","r","t",",","D","u","r","a","t","i","o","n",","," ","E","v","e","n","t","\n">>
DcsmHeaderRow == <<"s","t","a","r","t",",","d","u","r","a","t","i","o","n",",","s","t","a","g","e","\n">>
TsvHeaderRow == <<"o","n","s","e","t","\t","d","u","r","a","t","i","o","n","\t","d","e","s","c","r","i","p","t","i","o","n","\n">>
HmcHeaderRow == <<"D","a","t","e",","," ","T","i","m","e",","," ","R","e","c","o","r","d","i","n","g"," ","o","n","s","e","t",","," ","D","u","r","a","t","i","o","n",","," ","A","n","n","o","t","a","t","i","o","n","\n">>
WscHeaderRow == <<"E","p","o","c","h","\t","S","t","a","g","e","\n">>

\* three records of an HMC session: a stage, lights off, lights on
HmcStageW == <<"d",","," ","t",","," ","0",","," ","3","0",","," ","S","l","e","e","p"," ","s","t","a","g","e"," ","W","\n">>
HmcLightsOff == <<"d",","," ","t",","," ","0",","," ","0",","," ","L","i","g","h","t","s"," ","o","f","f","@","@","E","E","G","\n">>
HmcLightsOn == <<"d",","," ","t",","," ","6","0",","," ","0",","," ","L","i","g","h","t","s"," ","o","n","@","@","E","E","G","\n">>
HmcSessionLines == {HmcStageW, HmcLightsOff, HmcLightsOn}

(***************************************************************************)
(* Annotation files.  A path names a file that is missing, a text file     *)
(* (the list readlines() returns), a well-formed XML document (has: the    *)
(* root has a SleepStages child; vals: the texts of its SleepStage         *)
(* children, <<>> for an element without text) or an HDF5 container (has:  *)
(* it holds a 'hypnogram' dataset; vals: the integers stored in it).       *)
(***************************************************************************)
MissingFile == [kind |-> "missing", lines |-> <<>>, has |-> FALSE, vals |-> <<>>]
TextFile(lines) == [kind |-> "text", lines |-> lines, has |-> FALSE, vals |-> <<>>]
XmlFile(has, texts) == [kind |-> "xml", lines |-> <<>>, has |-> has, vals |-> texts]
Hdf5File(has, vals) == [kind |-> "hdf5", lines |-> <<>>, has |-> has, vals |-> vals]

\* what a reader leaves behind: the exception that escaped it ("none" when it
\* returned), the list it returned, the files it opened and the handles it
\* left open
Ret(anno) == [raised |-> "none", result |-> anno, opens |-> 1, handles |-> 0]
Raise(e) == [raised |-> e, result |-> <<>>, opens |-> 1, handles |-> 0]

\* d.get(k, default)
Get(d, k, default) == IF k \in DOMAIN d THEN d[k] ELSE default

\* [x] * n
Repeat(x, n) == IF n <= 0 THEN <<>> ELSE [i \in 1..n |-> x]

\* lines[1:]
Rest(lines) == IF lines = <<>> THEN <<>> ELSE Tail(lines)

\* xml with the native unknown code 9 as the default of dic2.get
xml_default_9(file) ==
    IF file.kind = "xml" /\ file.has
    THEN Ret([i \in 1..Len(file.vals) |-> Get(dic2, file.vals[i], 9)])
    ELSE Ret(<<>>)

xml(file) ==
    IF file.kind # "xml"
    THEN \* ET.parse raises (no such file, not XML); the except clause swallows it
         Ret(<<>>)
    ELSE IF ~file.has
         THEN Ret(<<>>)
         ELSE Ret([i \in 1..Len(file.vals) |-> Get(dic2, file.vals[i], 5)])

\* startTime holds the numerator of the onset: only its sign is read
RECURSIVE mass_txt_loop(_, _, _)
mass_txt_loop(lines, anno, startTime) ==
    IF lines = <<>> THEN Ret(anno)
    ELSE LET line == Strip(Head(lines))
             parts == Split(line, <<",">>)
         IN  IF line = <<>> \/ Len(parts) < 3 \/ ~Contains(StageWord, parts[3])
             THEN mass_txt_loop(Tail(lines), anno, startTime)
             ELSE LET words == Split(parts[3], <<" ">>)
                      stage_char == words[Len(words)]
                      anno2 == Append(anno, Get(dic, stage_char, 5))
                  IN  IF startTime < 0
                      THEN IF FloatOk(parts[1])
                           THEN mass_txt_loop(Tail(lines), anno2, FloatNum(parts[1]))
                           ELSE Raise("ValueError")
                      ELSE mass_txt_loop(Tail(lines), anno2, startTime)

mass_txt(file) ==
    IF file.kind = "missing" THEN Raise("FileNotFoundError")
    ELSE IF file.lines = <<>> \/ Strip(file.lines[1]) # MassHeader
         THEN Ret(<<>>)
         ELSE mass_txt_loop(Tail(file.lines), <<>>, -1)

RECURSIVE saf_loop(_, _)
saf_loop(string, anno) ==
    LET i == Find(string, SleepStageWords)
    IN  IF i = -1 THEN anno
        ELSE LET rest == From(string, i + 12)
             IN  saf_loop(rest, IF rest # <<>> THEN Append(anno, <<rest[1]>>) ELSE anno)

saf(file) ==
    IF file.kind = "missing" THEN Raise("FileNotFoundError")
    ELSE IF file.lines = <<>> THEN Ret(<<>>)
         ELSE LET anno == saf_loop(file.lines[1], <<>>)
              IN  Ret([i \in 1..Len(anno) |-> Get(dic, anno[i], 5)])

\* the body of eannot's loop with a default: a line that is not in the table
\* is appended as Unknown
eannot_line_default_5(raw_line) ==
    LET line == StripChars(raw_line, {NL})
    IN  <<Get(eannot_stage_dict, line, 5)>>

\* the body of eannot's loop: what one line appends to anno
eannot_line(raw_line) ==
    LET line == StripChars(raw_line, {NL})
    IN  IF Len(line) > 0 /\ line \in DOMAIN eannot_stage_dict
        THEN <<eannot_stage_dict[line]>>
        ELSE <<>>

RECURSIVE eannot_loop(_, _)
eannot_loop(lines, anno) ==
    IF lines = <<>> THEN Ret(anno)
    ELSE eannot_loop(Tail(lines), anno \o eannot_line(Head(lines)))

eannot(file) ==
    IF file.kind = "missing" THEN Raise("FileNotFoundError")
    ELSE eannot_loop(file.lines, <<>>)

\* the number of copies stages_csv emits for the duration num / den:
\* int(duration // 30) if duration > 0 else 1
stages_csv_count(num, den) == IF num > 0 THEN num \div (30 * den) ELSE 1

RECURSIVE stages_csv_loop(_, _)
stages_csv_loop(lines, ann) ==
    IF lines = <<>> THEN Ret(ann)
    ELSE LET raw == Split(Strip(Head(lines)), <<",">>)
         IN  IF Len(raw) < 3 \/ raw[3] \notin DOMAIN ann_dict
             THEN stages_csv_loop(Tail(lines), ann)
             ELSE IF ~FloatOk(raw[2]) THEN Raise("ValueError")
                  ELSE stages_csv_loop(Tail(lines),
                           ann \o Repeat(ann_dict[raw[3]],
                                         stages_csv_count(FloatNum(raw[2]), FloatDen(raw[2]))))

stages_csv(file) ==
    IF file.kind = "missing" THEN Raise("FileNotFoundError")
    ELSE stages_csv_loop(file.lines, <<>>)

\* the number of copies dcsm_ids emits: duration // 30 ([x] * n is empty for n <= 0)
dcsm_ids_count(duration) == duration \div 30

RECURSIVE dcsm_ids_loop(_, _)
dcsm_ids_loop(lines, anno) ==
    IF lines = <<>> THEN Ret(anno)
    ELSE LET line == Strip(Head(lines))
             parts == Split(line, <<",">>)
         IN  IF line = <<>> \/ Len(parts) < 3
             THEN dcsm_ids_loop(Tail(lines), anno)
             ELSE IF ~IntOk(parts[2]) THEN Raise("ValueError")
                  ELSE IF parts[3] \in DOMAIN dcsm_stage_dict
                       THEN dcsm_ids_loop(Tail(lines),
                                anno \o Repeat(dcsm_stage_dict[parts[3]],
                                               dcsm_ids_count(IntValue(parts[2]))))
                       ELSE dcsm_ids_loop(Tail(lines), anno)

dcsm_ids(file) ==
    IF file.kind = "missing" THEN Raise("FileNotFoundError")
    ELSE dcsm_ids_loop(file.lines, <<>>)

RECURSIVE tsv_loop(_, _)
tsv_loop(lines, onset_anno) ==
    IF lines = <<>> THEN Ret(onset_anno)
    ELSE LET line == Strip(Head(lines))
             parts == Split(line, <<TAB>>)
         IN  IF line = <<>> \/ Len(parts) < 3
             THEN tsv_loop(Tail(lines), onset_anno)
             ELSE LET ann == Lower(Strip(parts[3]))
                  IN  IF ann \in DOMAIN tsv_stage_dict
                      THEN tsv_loop(Tail(lines), Append(onset_anno, tsv_stage_dict[ann]))
                      ELSE tsv_loop(Tail(lines), onset_anno)

tsv(file) ==
    IF file.kind = "missing" THEN Raise("FileNotFoundError")
    ELSE tsv_loop(Rest(file.lines), <<>>)

h5(file) ==
    IF file.kind = "missing" THEN Raise("FileNotFoundError")
    ELSE IF file.kind # "hdf5"
         THEN \* h5py.File: file signature not found
              Raise("OSError")
         ELSE IF file.has THEN Ret(file.vals) ELSE Ret(<<>>)

RECURSIVE hmc_txt_loop(_, _)

\* 'lights on' skipped like 'lights off': continue instead of break
hmc_txt_lights_on_continue(lines, anno) == hmc_txt_loop(Tail(lines), anno)

\* what hmc_txt does at a 'lights on' record: break
hmc_txt_lights_on(lines, anno) == Ret(anno)

hmc_txt_loop(lines, anno) ==
    IF lines = <<>> THEN Ret(anno)
    ELSE LET parts == Split(Strip(Head(lines)), <<",", " ">>)
         IN  IF Len(parts) < 5 THEN hmc_txt_loop(Tail(lines), anno)
             ELSE LET ann == Lower(parts[5])
                  IN  IF Contains(LightsOn, ann) THEN hmc_txt_lights_on(lines, anno)
                      ELSE IF Contains(LightsOff, ann)
                           THEN hmc_txt_loop(Tail(lines), anno)
                           ELSE IF ann \in DOMAIN hmc_stage_dict
                                THEN hmc_txt_loop(Tail(lines),
                                                  Append(anno, hmc_stage_dict[ann]))
                                ELSE hmc_txt_loop(Tail(lines), anno)

hmc_txt(file) ==
    IF file.kind = "missing" THEN Raise("FileNotFoundError")
    ELSE hmc_txt_loop(Rest(file.lines), <<>>)

RECURSIVE wsc_txt_loop(_, _)
wsc_txt_loop(lines, anno) ==
    IF lines = <<>> THEN Ret(anno)
    ELSE LET parts == Split(Strip(Head(lines)), <<TAB>>)
         IN  IF Len(parts) >= 2 /\ parts[2] \in DOMAIN wsc_stage_dict
             THEN wsc_txt_loop(Tail(lines), Append(anno, wsc_stage_dict[parts[2]]))
             ELSE wsc_txt_loop(Tail(lines), anno)

wsc_txt(file) ==
    IF file.kind = "missing" THEN Raise("FileNotFoundError")
    ELSE wsc_txt_loop(Rest(file.lines), <<>>)

\* h5py.File is opened without a with block and never closed; every exception
\* is swallowed
phy_mat(file) ==
    [raised |-> "none", result |-> <<>>, opens |-> 1,
     handles |-> IF file.kind = "hdf5" THEN 1 ELSE 0]

\* the keys of the readers table of load_annotation
Readers == {"xml", "mass_txt", "saf", "eannot", "stages_csv", "dcsm_ids",
            "tsv", "h5", "hmc_txt", "wsc_txt", "phy_mat"}

\* reader(path), for the reader registered under name
CallReader(name, file) ==
    CASE name = "xml" -> xml(file)
      [] name = "mass_txt" -> mass_txt(file)
      [] name = "saf" -> saf(file)
      [] name = "eannot" -> eannot(file)
      [] name = "stages_csv" -> stages_csv(file)
      [] name = "dcsm_ids" -> dcsm_ids(file)
      [] name = "tsv" -> tsv(file)
      [] name = "h5" -> h5(file)
      [] name = "hmc_txt" -> hmc_txt(file)
      [] name = "wsc_txt" -> wsc_txt(file)
      [] name = "phy_mat" -> phy_mat(file)

(***************************************************************************)
(* The state: one call of load_annotation(path, reader_type) and one call  *)
(* of get_expected_chn_names(chnNameTable, rawChns).                       *)
(***************************************************************************)
VARIABLES
    reader_type,    \* load_annotation's argument: a registered name, "None" or another string
    file,           \* the file the path names
    pc,             \* "start", "reader" (inside the selected reader) or "done"
    result,         \* the list load_annotation returned
    raised,         \* the exception that escaped load_annotation, "none" when it returned
    opens,          \* how many times the file was opened
    handles,        \* handles on the file that are still open
    chnNameTable,   \* the per-dataset alias table
    rawChns,        \* the raw channel names of the recording
    chnNames,       \* the map under construction
    cpc,            \* "resolve", "prune", "fallback" or "done"; "eeg", "eog", "emg" or
                    \* "returned" in heuristic resolution
    signal_data,    \* the stacked channels, shape (C, T)
    labels,         \* the stage sequence of the recording
    fs,             \* sampling rate
    epoch_sec,      \* epoch duration in seconds
    seq_len,        \* epochs per sequence
    epochs,         \* the epoch tensor, sliced and then standardized
    l_epochs,       \* the labels of the epochs
    seqs,           \* the sequence tensor
    l_seqs,         \* the labels of the sequences
    epc,            \* "slice", "standardize", "package", "saved" or "skipped"
    entry,          \* the entry point that runs: "cli" (cli.main) or "api" (fast_preprocess)
    dataset,        \* the dataset identifier the entry point was given
    overwrite,      \* fast_preprocess's overwrite argument
    out_exists,     \* whether out_root/dataset existed before the run
    psg_files,      \* the recordings the scan found, in processing order
    rules,          \* the dataset rules in use
    made_dirs,      \* whether seq/ and label/ were created under out_root/dataset
    outcomes,       \* what the loop did for each recording it has been through
    success_count,  \* fast_preprocess's count of processed subjects
    bpc             \* "idle", "rules", "loop", "finished" or "returned"

annoVars == <<reader_type, file, pc, result, raised, opens, handles>>
chnVars == <<chnNameTable, rawChns, chnNames, cpc>>
epoVars == <<signal_data, labels, fs, epoch_sec, seq_len, epochs, l_epochs, seqs, l_seqs, epc>>
batVars == <<entry, dataset, overwrite, out_exists, psg_files, rules, made_dirs, outcomes,
             success_count, bpc>>
vars == <<annoVars, chnVars, epoVars, batVars>>

\* all sequences over S of length at most n
SeqsUpTo(S, n) == UNION {[1..k -> S] : k \in 0..n}

\* readlines() ends every line but the last with a newline
Readlines(lines) == \A i \in 1..(Len(lines) - 1) : lines[i][Len(lines[i])] = NL

\* values an HDF5 'hypnogram' dataset may store
HypValues == {0, 3, 5, 7, -1}

\* reader_type values that are not keys of the readers table
Unregistered == {"None", "edf"}

AllLines == MassLines \cup SafLines \cup EannotLines \cup StagesLines
            \cup DcsmLines \cup TsvLines \cup HmcLines \cup WscLines

\* the lines of the format a reader is written for
LinesOf(name) ==
    CASE name = "mass_txt" -> MassLines
      [] name = "saf" -> SafLines
      [] name = "eannot" -> EannotLines
      [] name = "stages_csv" -> StagesLines
      [] name = "dcsm_ids" -> DcsmLines
      [] name = "tsv" -> TsvLines
      [] name = "hmc_txt" -> HmcLines
      [] name = "wsc_txt" -> WscLines
      [] OTHER -> {}

\* files given to every reader_type: no file, an empty file, one line of any format
CommonFiles ==
    {MissingFile} \cup {TextFile(<<>>)} \cup {TextFile(<<l>>) : l \in AllLines}

XmlFiles ==
    {XmlFile(FALSE, <<>>)}
    \cup {XmlFile(TRUE, t) : t \in SeqsUpTo(XmlTexts \cup {<<>>}, MaxLines)}

Hdf5Files ==
    {Hdf5File(FALSE, <<>>)}
    \cup {Hdf5File(TRUE, v) : v \in SeqsUpTo(HypValues, MaxLines)}

\* HMC sessions: the header row, then stage and lights records
HmcSessionFiles ==
    {TextFile(<<HmcHeaderRow>> \o r) : r \in SeqsUpTo(HmcSessionLines, MaxRecords)}

FilesFor(name) ==
    CommonFiles
    \cup {TextFile(l) : l \in {x \in SeqsUpTo(LinesOf(name), MaxLines) : Readlines(x)}}
    \cup (IF name = "hmc_txt" THEN HmcSessionFiles ELSE {})
    \cup (IF name = "xml" THEN XmlFiles ELSE {})
    \cup (IF name \in {"h5", "phy_mat"} THEN Hdf5Files ELSE {})
    \cup (IF name \in Unregistered THEN {XmlFile(TRUE, <<>>), Hdf5File(TRUE, <<0>>)} ELSE {})

\* None, and an array of a given shape: data is nested as the shape says
NoneArray == [none |-> TRUE, shape |-> <<>>, data |-> <<>>]
ndarray(shape, data) == [none |-> FALSE, shape |-> shape, data |-> data]

\* no rules: DATASET_RULES.get(name) for a name that is not a key
NoRules == [fmt_psg |-> "None", fmt_anno |-> "None", reader |-> "None"]

BatIdle ==
    /\ entry = "idle"
    /\ dataset = "None"
    /\ overwrite = FALSE
    /\ out_exists = FALSE
    /\ psg_files = <<>>
    /\ rules = NoRules
    /\ made_dirs = FALSE
    /\ outcomes = <<>>
    /\ success_count = 0
    /\ bpc = "idle"

EpoIdle ==
    /\ signal_data = NoneArray
    /\ labels = <<>>
    /\ fs = 0
    /\ epoch_sec = 0
    /\ seq_len = 0
    /\ epochs = NoneArray
    /\ l_epochs = NoneArray
    /\ seqs = NoneArray
    /\ l_seqs = NoneArray
    /\ epc = "idle"

ChnIdle ==
    /\ chnNameTable = <<>>
    /\ rawChns = <<>>
    /\ chnNames = <<>>
    /\ cpc = "idle"

AnnoIdle ==
    /\ reader_type = "None"
    /\ file = MissingFile
    /\ pc = "idle"
    /\ result = <<>>
    /\ raised = "none"
    /\ opens = 0
    /\ handles = 0

InitAnnotation ==
    /\ reader_type \in Readers \cup Unregistered
    /\ file \in FilesFor(reader_type)
    /\ pc = "start"
    /\ result = <<>>
    /\ raised = "none"
    /\ opens = 0
    /\ handles = 0
    /\ ChnIdle
    /\ EpoIdle
    /\ BatIdle

\* readers.get with a default reader for names that are not registered
readers_get_default(name) == IF name \in Readers THEN name ELSE "eannot"

\* readers.get(reader_type): the registered reader, "None" when there is none
readers_get(name) == IF name \in Readers THEN name ELSE "None"

\* load_annotation up to the call of the reader
LoadAnnotation ==
    /\ pc = "start"
    /\ IF readers_get(reader_type) # "None"
       THEN /\ pc' = readers_get(reader_type)
            /\ UNCHANGED <<result, raised, opens, handles>>
       ELSE /\ pc' = "done"
            /\ result' = <<>>
            /\ UNCHANGED <<raised, opens, handles>>
    /\ UNCHANGED <<reader_type, file, chnVars, epoVars, batVars>>

\* the selected reader runs and load_annotation returns what it returned
Finish(out) ==
    /\ pc' = "done"
    /\ result' = out.result
    /\ raised' = out.raised
    /\ opens' = opens + out.opens
    /\ handles' = handles + out.handles
    /\ UNCHANGED <<reader_type, file, chnVars, epoVars, batVars>>

Xml == pc = "xml" /\ Finish(xml(file))
MassTxt == pc = "mass_txt" /\ Finish(mass_txt(file))
Saf == pc = "saf" /\ Finish(saf(file))
Eannot == pc = "eannot" /\ Finish(eannot(file))
StagesCsv == pc = "stages_csv" /\ Finish(stages_csv(file))
DcsmIds == pc = "dcsm_ids" /\ Finish(dcsm_ids(file))
Tsv == pc = "tsv" /\ Finish(tsv(file))
H5 == pc = "h5" /\ Finish(h5(file))
HmcTxt == pc = "hmc_txt" /\ Finish(hmc_txt(file))
WscTxt == pc = "wsc_txt" /\ Finish(wsc_txt(file))
\* phy_mat never closes the File it opened: the handle is still open at the
\* return unless the interpreter reclaims the unreferenced object by then
reclaimed(out) == [out EXCEPT !.handles = 0]

PhyMat ==
    /\ pc = "phy_mat"
    /\ \E out \in {phy_mat(file), reclaimed(phy_mat(file))} : Finish(out)

NextAnnotation ==
    \/ LoadAnnotation
    \/ Xml \/ MassTxt \/ Saf \/ Eannot \/ StagesCsv \/ DcsmIds
    \/ Tsv \/ H5 \/ HmcTxt \/ WscTxt \/ PhyMat

SpecAnnotation == InitAnnotation /\ [][NextAnnotation]_vars

(***************************************************************************)
(* Claims about sleep_kit.annotation, checked under SpecAnnotation.        *)
(***************************************************************************)
Returned == pc = "done" /\ raised = "none"

InRange(anno) == \A i \in 1..Len(anno) : anno[i] \in 0..5

\* C1: load_annotation never raises past its boundary: for every registered
\* reader_type and every file (missing, unreadable, malformed records such as
\* a duration that is not a number) it returns a sequence.
C1_NeverRaises ==
    (pc = "done" /\ reader_type \in Readers) => raised = "none"

\* the header row of the format a reader is written for; <<>> when the format
\* has no header
HeaderRowOf(name) ==
    CASE name = "mass_txt" -> MassHeaderRow
      [] name = "stages_csv" -> StagesHeaderRow
      [] name = "dcsm_ids" -> DcsmHeaderRow
      [] name = "tsv" -> TsvHeaderRow
      [] name = "hmc_txt" -> HmcHeaderRow
      [] name = "wsc_txt" -> WscHeaderRow
      [] OTHER -> <<>>

\* C2: for every supported format, load_annotation on an empty file or on a
\* file that holds only a header row returns the empty sequence and does not
\* raise.
C2_EmptyOrHeaderOnly ==
    (/\ pc = "done"
     /\ reader_type \in Readers
     /\ \/ file = TextFile(<<>>)
        \/ HeaderRowOf(reader_type) # <<>> /\ file = TextFile(<<HeaderRowOf(reader_type)>>))
    => (raised = "none" /\ result = <<>>)

\* C3: load_annotation with a reader_type that is not a registered format
\* identifier (None included) returns the empty sequence, raises nothing and
\* never opens the file.
C3_UnknownReaderEmpty ==
    (pc = "done" /\ reader_type \notin Readers)
    => (result = <<>> /\ raised = "none" /\ opens = 0 /\ handles = 0)

\* an unregistered reader_type was given an existing, non-empty file, and
\* load_annotation has returned
C3_Witness ==
    /\ pc = "done"
    /\ reader_type = "None"
    /\ file.kind = "text"
    /\ file.lines # <<>>

\* a MASS record that carries the stage marker, and its final token
MassStageRecord(line) ==
    LET parts == Split(Strip(line), <<",">>)
    IN  Len(parts) >= 3 /\ Contains(StageWord, parts[3])
MassToken(line) ==
    LET words == Split(Split(Strip(line), <<",">>)[3], <<" ">>)
    IN  words[Len(words)]

\* C4: in the event-log reader mass_txt, a record whose annotation holds the
\* stage marker but whose final token is not in the lookup table is dropped:
\* the output holds one code per stage record whose token is in the table,
\* and no Unknown stands in for the others.
C4_UnmappedDropped ==
    (/\ Returned
     /\ reader_type = "mass_txt"
     /\ file.kind = "text"
     /\ file.lines # <<>>
     /\ Strip(file.lines[1]) = MassHeader)
    => Len(result) = Cardinality({i \in 2..Len(file.lines) :
                                     /\ MassStageRecord(file.lines[i])
                                     /\ MassToken(file.lines[i]) \in DOMAIN dic})

\* a record of a duration-expanding format: whether its stage token is valid
\* and its duration a number, its stage code, its duration num / den in seconds
DurationRecord(name, line) ==
    LET parts == Split(Strip(line), <<",">>)
        table == IF name = "dcsm_ids" THEN dcsm_stage_dict ELSE ann_dict
        ok == /\ Len(parts) >= 3
              /\ parts[3] \in DOMAIN table
              /\ IF name = "dcsm_ids" THEN IntOk(parts[2]) ELSE FloatOk(parts[2])
    IN  [valid |-> ok,
         code |-> IF ok THEN table[parts[3]] ELSE 5,
         num |-> IF ~ok THEN 0
                 ELSE IF name = "dcsm_ids" THEN IntValue(parts[2])
                 ELSE FloatNum(parts[2]),
         den |-> IF ok /\ name # "dcsm_ids" THEN FloatDen(parts[2]) ELSE 1]

\* the codes the lines contribute when a valid record of duration num / den
\* contributes copies(num, den) codes, and every other line nothing
RECURSIVE Concat(_)
Concat(parts) == IF parts = <<>> THEN <<>> ELSE Head(parts) \o Concat(Tail(parts))

Expanded(name, lines, copies(_, _)) ==
    Concat([i \in 1..Len(lines) |->
               LET r == DurationRecord(name, lines[i])
               IN  IF r.valid THEN Repeat(r.code, copies(r.num, r.den)) ELSE <<>>])

\* the valid records of the lines
ValidRecords(name, lines) ==
    {DurationRecord(name, lines[i]) :
        i \in {j \in 1..Len(lines) : DurationRecord(name, lines[j]).valid}}

\* C5: in the duration-expanding readers dcsm_ids and stages_csv, a record
\* with a valid stage token and duration d contributes floor(d/30) copies of
\* its code when d >= 30, and nothing when d is 0 or negative.
C5_DurationExpansion ==
    (/\ Returned
     /\ reader_type \in {"dcsm_ids", "stages_csv"}
     /\ file.kind = "text"
     /\ \A r \in ValidRecords(reader_type, file.lines) :
            r.num >= 30 * r.den \/ r.num <= 0)
    => result = Expanded(reader_type, file.lines,
                         LAMBDA num, den : IF num >= 30 * den
                                           THEN num \div (30 * den) ELSE 0)

\* C6: in stages_csv, a record with a mapped stage and a duration d > 0
\* contributes max(1, floor(d/30)) copies of its code: a positive duration
\* shorter than 30 seconds still gives one code.
C6_MinimumOneRepeat ==
    (/\ Returned
     /\ reader_type = "stages_csv"
     /\ file.kind = "text"
     /\ \A r \in ValidRecords(reader_type, file.lines) : r.num > 0)
    => result = Expanded(reader_type, file.lines,
                         LAMBDA num, den : IF num \div (30 * den) >= 1
                                           THEN num \div (30 * den) ELSE 1)

\* the annotation field of an HMC record, lower-cased; <<>> for a row that has
\* fewer than five fields
HmcAnnotation(line) ==
    LET parts == Split(Strip(line), <<",", " ">>)
    IN  IF Len(parts) >= 5 THEN Lower(parts[5]) ELSE <<>>

\* the position of the first record whose annotation holds 'lights on'
\* (the header is line 1), one past the end when there is none
FirstLightsOn(lines) ==
    LET at == {i \in 2..Len(lines) : Contains(LightsOn, HmcAnnotation(lines[i]))}
    IN  IF at = {} THEN Len(lines) + 1 ELSE CHOOSE i \in at : \A j \in at : i <= j

HmcMapped(line) == HmcAnnotation(line) \in DOMAIN hmc_stage_dict

\* the mapped codes, in file order, of the records before position stop
HmcCodesBefore(lines, stop) ==
    LET kept == SelectSeq(SubSeq(lines, 2, stop - 1), HmcMapped)
    IN  [i \in 1..Len(kept) |-> hmc_stage_dict[HmcAnnotation(kept[i])]]

\* C7: in hmc_txt the output is exactly the mapped stage codes, in file order,
\* of the records before the first record whose annotation holds 'lights on';
\* nothing at or after that marker is included, and a 'lights off' record
\* gives nothing itself while the records after it are still read.
C7_StopsAtLightsOn ==
    (pc = "done" /\ reader_type = "hmc_txt" /\ file.kind = "text")
    => /\ raised = "none"
       /\ result = HmcCodesBefore(file.lines, FirstLightsOn(file.lines))

\* hmc_txt has read a session with a 'lights off' record followed by a stage
\* record, then 'lights on' followed by another stage record
C7_Witness ==
    /\ pc = "done"
    /\ reader_type = "hmc_txt"
    /\ file = TextFile(<<HmcHeaderRow, HmcLightsOff, HmcStageW, HmcLightsOn, HmcStageW>>)
    /\ result = <<0>>

EannotUnknownTokens == {<<"u","n","s","c","o","r","e","d">>, <<" ">>, <<"9">>, <<"N","a","N">>}

\* the stage tokens of EANNOT and their codes
EannotStageCodes ==
       (<<"w","a","k","e">> :> 0) @@ (<<"N","w","a","k","e">> :> 1)
    @@ (<<"N","1">> :> 1) @@ (<<"N","N","1">> :> 1)
    @@ (<<"N","2">> :> 2) @@ (<<"N","N","2">> :> 2) @@ (<<"8">> :> 2)
    @@ (<<"N","3">> :> 3) @@ (<<"N","N","3">> :> 3) @@ (<<"N","4">> :> 3)
    @@ (<<"R","E","M">> :> 4)

\* the token a line holds: the line without its newline
EannotToken(line) == IF line # <<>> /\ line[Len(line)] = NL THEN SubSeq(line, 1, Len(line) - 1) ELSE line

EannotUnknownLine(line) == EannotToken(line) \in EannotUnknownTokens
EannotStageLine(line) == EannotToken(line) \in DOMAIN EannotStageCodes
EannotEmitting(line) == EannotUnknownLine(line) \/ EannotStageLine(line)

\* C9: in eannot every line holding an unscored, blank (one space) or sentinel
\* token gives one Unknown, every line holding a stage token gives its code,
\* and every other line (an empty line included) gives nothing, so the output
\* is as long as the number of stage lines plus the number of
\* unscored/blank/sentinel lines.
C9_EannotLines ==
    (pc = "done" /\ reader_type = "eannot" /\ file.kind = "text")
    => /\ raised = "none"
       /\ Len(result) = Cardinality({i \in 1..Len(file.lines) : EannotStageLine(file.lines[i])})
                        + Cardinality({i \in 1..Len(file.lines) : EannotUnknownLine(file.lines[i])})
       /\ LET kept == SelectSeq(file.lines, EannotEmitting)
          IN  result = [i \in 1..Len(kept) |->
                           IF EannotUnknownLine(kept[i]) THEN 5
                           ELSE EannotStageCodes[EannotToken(kept[i])]]

\* eannot has read a stage line, a blank-token line and a line that is not in
\* the table
C9_Witness ==
    /\ pc = "done"
    /\ reader_type = "eannot"
    /\ file.kind = "text"
    /\ Len(file.lines) = 3
    /\ EannotStageLine(file.lines[1])
    /\ file.lines[2] = <<" ", NL>>
    /\ ~EannotEmitting(file.lines[3])
    /\ Len(result) = 2

\* C25: every file handle a reader opened is closed by the time the reader
\* has returned or raised, whatever the outcome of the read.
C25_HandlesClosed == pc = "done" => handles = 0

(***************************************************************************)
(* sleep_kit.utils: table-driven channel resolution.                       *)
(***************************************************************************)
\* the canonical roles, as the strings the code compares with raw names
F3 == <<"F","3">>
F4 == <<"F","4">>
C3 == <<"C","3">>
C4 == <<"C","4">>
O1 == <<"O","1">>
O2 == <<"O","2">>
E1 == <<"E","1">>
E2 == <<"E","2">>
EMG == <<"E","M","G">>
M1 == <<"M","1">>
M2 == <<"M","2">>
EMGref == <<"E","M","G","r","e","f">>

\* expected (utils.py:187-188): the order roles are resolved in
expected == <<F3, F4, C3, C4, O1, O2, E1, E2, EMG, M1, M2, EMGref>>

\* a table entry is a str or a tuple of str
Str(s) == [isstr |-> TRUE, val |-> s]
Tuple(t) == [isstr |-> FALSE, val |-> t]

\* CHANNEL_MAPPING['SHHS2'] (config.py:41-43)
SHHS2 ==
       (C4 :> Str(<<"E","E","G">>))
    @@ (C3 :> Tuple(<<<<"E","E","G","(","s","e","c",")">>, <<"E","E","G","2">>>>))
    @@ (E1 :> Str(<<"E","O","G","(","L",")">>))
    @@ (E2 :> Str(<<"E","O","G","(","R",")">>))

\* CHANNEL_MAPPING['MROS1'] (config.py:54-57)
MROS1 ==
       (C4 :> Str(<<"C","4","-","A","1">>))
    @@ (C3 :> Str(<<"C","3","-","A","2">>))
    @@ (E1 :> Str(<<"L","O","C">>))
    @@ (E2 :> Str(<<"R","O","C">>))
    @@ (M1 :> Str(<<"A","1">>))
    @@ (M2 :> Str(<<"A","2">>))
    @@ (EMG :> Tuple(<<<<"L","C","h","i","n">>, <<"L"," ","C","h","i","n">>, <<"L"," ","C","h","i","n","-","R"," ","C","h","i","n">>>>))
    @@ (EMGref :> Tuple(<<<<"R","C","h","i","n">>, <<"R"," ","C","h","i","n">>>>))

\* channel labels of SHHS-like recordings
ShhsRawNames == {
    <<"E","E","G">>,
    <<"E","E","G","2">>,
    <<"e","e","g","(","S","E","C",")">>,
    <<"C","3">>,
    <<"E","O","G","(","L",")">>,
    <<"F","3">>,
    <<"E","M","G","r","e","f">>
}

\* channel labels of MrOS-like recordings
MrosRawNames == {
    <<"C","3","-","A","2">>,
    <<"c","4","-","a","1">>,
    <<"A","1">>,
    <<"A","2">>,
    <<"F","3">>,
    <<"F","4">>,
    <<"O","1">>,
    <<"R","C","h","i","n">>,
    <<"L"," ","C","h","i","n">>,
    <<"R","O","C">>
}

\* the candidate names of role c: the configured aliases, then the role itself
\* (utils.py:193-195)
Candidates(table, c) ==
    LET names == IF c \in DOMAIN table THEN table[c] ELSE Tuple(<<>>)
    IN  (IF names.isstr THEN <<names.val>> ELSE names.val) \o <<c>>

\* a loop whose `names` is the table's own tuple or list
names_is_entry_unless_str(names) == ~names.isstr

\* whether `names`, the list the loop appends the role to, is the object held
\* by the table: never, since [names] and list(names) both build a new list
\* (utils.py:194)
names_is_entry(names) == FALSE

\* the alias table after names.append(c) for role c (utils.py:193-195)
append_role(table, c) ==
    IF c \in DOMAIN table /\ names_is_entry(table[c])
    THEN [table EXCEPT ![c] = Tuple(table[c].val \o <<c>>)]
    ELSE table

\* the alias table after the loop has handled the first n roles of expected
RECURSIVE table_after(_, _)
table_after(table, n) ==
    IF n = 0 THEN table ELSE append_role(table_after(table, n - 1), expected[n])

\* the first raw name that equals name, case-insensitively; 0 when none does
FirstMatch(name, raw) ==
    LET hits == {i \in 1..Len(raw) : Upper(name) = Upper(raw[i])}
    IN  IF hits = {} THEN 0 ELSE CHOOSE i \in hits : \A j \in hits : i <= j

\* the first candidate that matches any raw name; 0 when none does
FirstCandidate(names, raw) ==
    LET hits == {k \in 1..Len(names) : FirstMatch(names[k], raw) # 0}
    IN  IF hits = {} THEN 0 ELSE CHOOSE k \in hits : \A j \in hits : k <= j

\* a resolution that scans the raw names in the outer loop: a role gets the
\* first raw name that any of its candidates matches
resolve_raw_names_first(table, raw) ==
    LET hit(c, i) == \E k \in 1..Len(Candidates(table, c)) :
                        Upper(Candidates(table, c)[k]) = Upper(raw[i])
        found == {n \in 1..Len(expected) : \E i \in 1..Len(raw) : hit(expected[n], i)}
    IN  [c \in {expected[n] : n \in found} |->
            raw[CHOOSE i \in 1..Len(raw) :
                    hit(c, i) /\ \A j \in 1..(i - 1) : ~hit(c, j)]]

\* the resolution loop (utils.py:190-204): every role whose candidates match
\* is mapped to the raw name its first matching candidate meets first
resolve(table, raw) ==
    LET found == {i \in 1..Len(expected) : FirstCandidate(Candidates(table, expected[i]), raw) # 0}
    IN  [c \in {expected[i] : i \in found} |->
            LET names == Candidates(table, c)
            IN  raw[FirstMatch(names[FirstCandidate(names, raw)], raw)]]

\* d without key k
Del(d, k) == [x \in DOMAIN d \ {k} |-> d[x]]

\* d with d[k] = v
Put(d, k, v) == [x \in DOMAIN d \cup {k} |-> IF x = k THEN v ELSE d[x]]

\* the roles a reference must not be part of
SignalRoles == <<F3, F4, C3, C4, O1, O2, E1, E2>>

\* a pruning that drops ref only when its name equals a signal role's name
prune_ref_equal(chn, ref) ==
    IF /\ ref \in DOMAIN chn
       /\ \E i \in 1..Len(SignalRoles) :
              SignalRoles[i] \in DOMAIN chn /\ chn[ref] = chn[SignalRoles[i]]
    THEN Del(chn, ref)
    ELSE chn

\* 'Remove incorrect references' for one ref (utils.py:208-212)
prune_ref(chn, ref) ==
    IF /\ ref \in DOMAIN chn
       /\ \E i \in 1..Len(SignalRoles) :
              SignalRoles[i] \in DOMAIN chn /\ Contains(chn[ref], chn[SignalRoles[i]])
    THEN Del(chn, ref)
    ELSE chn

\* utils.py:207-212
prune(chn) == prune_ref(prune_ref(chn, M1), M2)

\* a substitution that copies the source's name and keeps the source
move_keeping_source(chn, source, target) ==
    IF target \notin DOMAIN chn /\ source \in DOMAIN chn
    THEN Put(chn, target, chn[source])
    ELSE chn

\* one fallback rule: chnNames[target] = chnNames.pop(source)
move(chn, source, target) ==
    IF target \notin DOMAIN chn /\ source \in DOMAIN chn
    THEN Del(Put(chn, target, chn[source]), source)
    ELSE chn

\* the fallback replacement rules, in the order of the code (utils.py:215-222)
fallback(chn) == move(move(move(move(chn, F3, F4), C3, C4), O1, O2), EMGref, EMG)

AliasTables == {SHHS2, MROS1}

RawNamesFor(table) == IF table = SHHS2 THEN ShhsRawNames ELSE MrosRawNames

InitChannels ==
    /\ chnNameTable \in AliasTables
    /\ rawChns \in SeqsUpTo(RawNamesFor(chnNameTable), MaxRawChns)
    /\ chnNames = <<>>
    /\ cpc = "resolve"
    /\ AnnoIdle
    /\ EpoIdle
    /\ BatIdle

\* utils.py:186-204
Resolve ==
    /\ cpc = "resolve"
    /\ chnNames' = resolve(chnNameTable, rawChns)
    /\ chnNameTable' = table_after(chnNameTable, Len(expected))
    /\ cpc' = "prune"
    /\ UNCHANGED <<rawChns, annoVars, epoVars, batVars>>

\* utils.py:206-212
Prune ==
    /\ cpc = "prune"
    /\ chnNames' = prune(chnNames)
    /\ cpc' = "fallback"
    /\ UNCHANGED <<chnNameTable, rawChns, annoVars, epoVars, batVars>>

\* the whole call (utils.py:163-224)
get_expected_chn_names(table, raw) == fallback(prune(resolve(table, raw)))

\* utils.py:214-224
Fallback ==
    /\ cpc = "fallback"
    /\ chnNames' = fallback(chnNames)
    /\ cpc' = "done"
    /\ UNCHANGED <<chnNameTable, rawChns, annoVars, epoVars, batVars>>

NextChannels == Resolve \/ Prune \/ Fallback

SpecChannels == InitChannels /\ [][NextChannels]_vars

(***************************************************************************)
(* Claims about table-driven resolution, checked under SpecChannels.       *)
(***************************************************************************)
\* the (source, target) pairs of the fallback chain, in the order of the code
FallbackPairs == <<<<F3, F4>>, <<C3, C4>>, <<O1, O2>>, <<EMGref, EMG>>>>

\* the entry of role c in map d: <<name>>, or <<>> when it has none
Entry(d, c) == IF c \in DOMAIN d THEN <<d[c]>> ELSE <<>>

\* C10: for each pair (source, target) of F3->F4, C3->C4, O1->O2,
\* EMGref->EMG: if, when the fallback rules start, the target is unresolved
\* and the source resolved, the final map has the target mapped to the
\* source's raw name and the source absent; otherwise both entries are as
\* they were.  The roles outside the pairs keep their entries.
C10_FallbackMoves ==
    [][cpc = "fallback" =>
        /\ \A p \in 1..Len(FallbackPairs) :
              LET source == FallbackPairs[p][1]
                  target == FallbackPairs[p][2]
              IN  IF target \notin DOMAIN chnNames /\ source \in DOMAIN chnNames
                  THEN /\ Entry(chnNames', target) = <<chnNames[source]>>
                       /\ source \notin DOMAIN chnNames'
                  ELSE /\ Entry(chnNames', target) = Entry(chnNames, target)
                       /\ Entry(chnNames', source) = Entry(chnNames, source)
        /\ \A c \in {E1, E2, M1, M2} : Entry(chnNames', c) = Entry(chnNames, c)
        /\ cpc' = "done"]_vars

\* the raw names resolve C3 (by an alias) and no candidate of C4 matches, and
\* resolution has finished with C4 holding C3's raw name and C3 absent
C10_Witness ==
    /\ cpc = "done"
    /\ FirstCandidate(Candidates(chnNameTable, C3), rawChns) # 0
    /\ FirstCandidate(Candidates(chnNameTable, C4), rawChns) = 0
    /\ C4 \in DOMAIN chnNames
    /\ C3 \notin DOMAIN chnNames
    /\ \E i \in 1..Len(rawChns) : rawChns[i] = chnNames[C4]

\* the signal roles of map d whose raw name contains the raw name of ref
Containing(d, ref) ==
    {i \in 1..Len(SignalRoles) :
        SignalRoles[i] \in DOMAIN d /\ Contains(d[ref], d[SignalRoles[i]])}

\* C11: when resolution has finished, a reference role (M1, M2) whose raw
\* name, as the resolution loop resolved it, is a substring of the raw name
\* the loop resolved for one of F3, F4, C3, C4, O1, O2, E1, E2 is absent from
\* the final map; and in the final map itself, after the fallback chain has
\* moved names, no reference role's name is a substring of a signal role's.
C11_SelfReferenceExcluded ==
    cpc = "done" =>
        \A ref \in {M1, M2} :
            LET resolved == resolve(chnNameTable, rawChns)
            IN  /\ (ref \in DOMAIN resolved /\ Containing(resolved, ref) # {})
                      => ref \notin DOMAIN chnNames
                /\ ref \in DOMAIN chnNames => Containing(chnNames, ref) = {}

\* M2 was resolved to a raw name that is a proper part of the name resolved
\* for C3, the fallback chain has moved C3's name to C4, and M2 is absent
C11_Witness ==
    /\ cpc = "done"
    /\ LET resolved == resolve(chnNameTable, rawChns)
       IN  /\ M2 \in DOMAIN resolved
           /\ C3 \in DOMAIN resolved
           /\ Contains(resolved[M2], resolved[C3])
           /\ resolved[M2] # resolved[C3]
           /\ C4 \notin DOMAIN resolved
           /\ C4 \in DOMAIN chnNames
           /\ chnNames[C4] = resolved[C3]
    /\ M2 \notin DOMAIN chnNames

Aliases(table, c) ==
    IF c \notin DOMAIN table THEN <<>>
    ELSE IF table[c].isstr THEN <<table[c].val>> ELSE table[c].val

\* raw name i is candidate `name`, compared whole and without regard to case
Matches(name, raw, i) == Upper(name) = Upper(raw[i])

\* C13: when the resolution loop has run, for each of the 12 roles, with the
\* candidates being the configured aliases in order followed by the bare role
\* name: the role is resolved exactly when some candidate equals some raw
\* name (case-insensitively, whole string), and then to the first raw name
\* equal to the earliest candidate that equals any raw name, whatever the
\* position of the raw names the later candidates equal.
C13_EarliestCandidateWins ==
    cpc = "prune" =>
        /\ Len(expected) = 12
        /\ \A n \in 1..Len(expected) :
              LET c == expected[n]
                  cand == Aliases(chnNameTable, c) \o <<c>>
                  matching == {k \in 1..Len(cand) :
                                  \E i \in 1..Len(rawChns) : Matches(cand[k], rawChns, i)}
              IN  IF matching = {}
                  THEN c \notin DOMAIN chnNames
                  ELSE /\ c \in DOMAIN chnNames
                       /\ \E k \in matching, i \in 1..Len(rawChns) :
                             /\ \A j \in matching : k <= j
                             /\ Matches(cand[k], rawChns, i)
                             /\ \A j \in 1..(i - 1) : ~Matches(cand[k], rawChns, j)
                             /\ chnNames[c] = rawChns[i]

\* the loop has run on a raw list where C3's bare name comes before the raw
\* name its second alias equals, and where F3, a role without table entry, is
\* a raw name: C3 is resolved to the alias's raw name and F3 to its own
C13_Witness ==
    /\ cpc = "prune"
    /\ F3 \notin DOMAIN chnNameTable
    /\ F3 \in DOMAIN chnNames
    /\ \E i, j \in 1..Len(rawChns) :
          /\ i < j
          /\ Matches(C3, rawChns, i)
          /\ Matches(Aliases(chnNameTable, C3)[2], rawChns, j)
          /\ chnNames[C3] = rawChns[j]
          /\ rawChns[i] # rawChns[j]

(***************************************************************************)
(* Heuristic channel resolution: get_auto_chn_names (utils.py:52-156),     *)
(* used by psg_load_raw when the dataset has no alias table.  Indices are  *)
(* counted from 1 and 0 stands for None.                                   *)
(***************************************************************************)
SPO2 == <<"S","P","O","2">>
LEG == <<"L","E","G">>
A1 == <<"A","1">>
A2 == <<"A","2">>

\* a search that takes the first channel containing the query
find_str_in_list_any(expect, ch_list) ==
    LET hits == {i \in 1..Len(ch_list) : Contains(expect, ch_list[i])}
    IN  IF hits = {} THEN 0 ELSE CHOOSE i \in hits : \A j \in hits : i <= j

\* find_str_in_list (utils.py:20-44)
find_str_in_list(expect, ch_list) ==
    LET hits == {i \in 1..Len(ch_list) :
                    Contains(expect, ch_list[i]) /\ ~Contains(SPO2, ch_list[i])}
    IN  IF hits = {} THEN 0 ELSE CHOOSE i \in hits : \A j \in hits : i <= j

\* char.isalnum()
IsAlnum(c) == IndexIn(c, UpperLetters) # 0 \/ IndexIn(c, LowerLetters) # 0 \/ IsDigit(c)

\* 'Remove leg channels' (utils.py:75)
without_leg(raw) == SelectSeq(raw, LAMBDA s : ~Contains(LEG, s))

\* the normalized name of s (utils.py:78)
normalize(s) == Upper(SelectSeq(s, IsAlnum))

\* raw_norm (utils.py:78)
raw_norm(raw) == [i \in 1..Len(raw) |-> normalize(raw[i])]

\* the EEG positions, in the order of the loop (utils.py:86)
EegPositions == <<F3, F4, C3, C4, O1, O2>>

\* reference tokens of the same side as the position
ref_cand_same_side(ee) ==
    IF ee[Len(ee)] \in {"3", "1"} THEN <<M1, A1>> ELSE <<M2, A2>>

\* ref_cand (utils.py:87)
ref_cand(ee) ==
    IF ee[Len(ee)] \in {"3", "1"} THEN <<M2, A2>> ELSE <<M1, A1>>

\* the generic reference tokens, in the order of the scan (utils.py:105)
GenericRefs == <<A1, A2, M1, M2>>

\* d.setdefault(k, v)
setdefault(d, k, v) == IF k \in DOMAIN d THEN d ELSE Put(d, k, v)

\* 'Infer reference channels' (utils.py:105-108), after the first n tokens
RECURSIVE infer_reference(_, _, _, _)
infer_reference(chn, raw, norm, n) ==
    IF n = 0 THEN chn
    ELSE LET prev == infer_reference(chn, raw, norm, n - 1)
             idx == find_str_in_list(GenericRefs[n], norm)
         IN  IF idx # 0 THEN setdefault(prev, M2, raw[idx]) ELSE prev

\* one pass of the EEG loop (utils.py:87-108) from state st = (chnNames, indRef)
eeg_position(st, raw, norm, ee) ==
    LET index_M == find_str_in_list(ee \o ref_cand(ee)[1], norm)
        index_A == find_str_in_list(ee \o ref_cand(ee)[2], norm)
        index_EEG == find_str_in_list(ee, norm)
    IN  IF index_M # 0
        THEN [chnNames |-> Put(st.chnNames, ee, raw[index_M]), indRef |-> FALSE]
        ELSE IF index_A # 0
        THEN [chnNames |-> Put(st.chnNames, ee, raw[index_A]), indRef |-> FALSE]
        ELSE IF index_EEG # 0
        THEN [chnNames |->
                 IF st.indRef
                 THEN infer_reference(Put(st.chnNames, ee, raw[index_EEG]),
                                      raw, norm, Len(GenericRefs))
                 ELSE Put(st.chnNames, ee, raw[index_EEG]),
              indRef |-> st.indRef]
        ELSE st

\* the EEG loop after its first n positions (utils.py:80-108)
RECURSIVE eeg_loop(_, _, _)
eeg_loop(raw, norm, n) ==
    IF n = 0 THEN [chnNames |-> <<>>, indRef |-> TRUE]
    ELSE eeg_position(eeg_loop(raw, norm, n - 1), raw, norm, EegPositions[n])

\* defaults (utils.py:124-127)
defaults ==
       (E1 :> <<E1, <<"L","O","C">>, <<"E","O","G","1">>, <<"E","O","G","L">>, <<"L","E","O","G">>>>)
    @@ (E2 :> <<E2, <<"R","O","C">>, <<"E","O","G","2">>, <<"E","O","G","R">>, <<"R","E","O","G">>>>)

\* the first name of names that find_str_in_list finds; 0 when none is found
FirstFound(names, norm) ==
    LET hits == {k \in 1..Len(names) : find_str_in_list(names[k], norm) # 0}
    IN  IF hits = {} THEN 0 ELSE CHOOSE k \in hits : \A j \in hits : k <= j

\* one pass of the EOG loop (utils.py:113-132)
eog_position(chn, raw, norm, ee) ==
    LET index_M == find_str_in_list(ee \o <<"M">>, norm)
        index_A == find_str_in_list(ee \o <<"A">>, norm)
        k == FirstFound(defaults[ee], norm)
    IN  IF index_M # 0 THEN Put(chn, ee, raw[index_M])
        ELSE IF index_A # 0 THEN Put(chn, ee, raw[index_A])
        ELSE IF k # 0 THEN Put(chn, ee, raw[find_str_in_list(defaults[ee][k], norm)])
        ELSE chn

\* the EOG loop (utils.py:113-132)
eog_loop(chn, raw, norm) == eog_position(eog_position(chn, raw, norm, E1), raw, norm, E2)

\* the EMG tokens (utils.py:138) and the EMG reference tokens (utils.py:150)
EmgTokens == <<<<"C","H","I","N","1">>, <<"L","C","H","I","N">>, <<"C","H","I","N","L">>, <<"C","C","H","I","N">>, <<"C","H","I","N","C">>, <<"C","H","I","N">>, <<"E","M","G">>>>
EmgRefTokens == <<<<"C","H","I","N","2">>, <<"C","H","I","N","3">>, <<"R","C","H","I","N">>, <<"C","H","I","N","R">>, <<"C","H","I","N">>>>

\* an EMG lookup that takes the first channel matching any of the EMG tokens
index_of_EMG_any_token(norm) ==
    LET hits == {i \in 1..Len(norm) :
                    \E k \in 1..Len(EmgTokens) : find_str_in_list(EmgTokens[k], <<norm[i]>>) # 0}
    IN  IF hits = {} THEN 0 ELSE CHOOSE i \in hits : \A j \in hits : i <= j

\* index_EMG (utils.py:137-143)
index_of_EMG(norm) ==
    LET k == FirstFound(EmgTokens, norm)
    IN  IF k = 0 THEN 0 ELSE find_str_in_list(EmgTokens[k], norm)

\* the EMG channel and its reference (utils.py:137-154)
emg_channels(chn, raw, norm) ==
    LET index_EMG == index_of_EMG(norm)
        withEmg == IF index_EMG # 0 THEN Put(chn, EMG, raw[index_EMG]) ELSE chn
        hits == {k \in 1..Len(EmgRefTokens) :
                    /\ find_str_in_list(EmgRefTokens[k], norm) # 0
                    /\ find_str_in_list(EmgRefTokens[k], norm) # index_EMG}
    IN  IF /\ index_EMG # 0
           /\ Count(norm[index_EMG], <<"C","H","I","N">>) < 2
           /\ Count(norm[index_EMG], <<"E","M","G">>) < 2
           /\ hits # {}
        THEN Put(withEmg, EMGref,
                 raw[find_str_in_list(EmgRefTokens[CHOOSE k \in hits : \A j \in hits : k <= j], norm)])
        ELSE withEmg

\* the whole call (utils.py:52-156)
get_auto_chn_names(raw) ==
    LET kept == without_leg(raw)
        norm == raw_norm(kept)
    IN  emg_channels(eog_loop(eeg_loop(kept, norm, Len(EegPositions)).chnNames, kept, norm),
                     kept, norm)

\* channel labels of recordings without alias table
AutoRawNames == {
    <<"C","3","-","A","2">>,
    <<"C","3">>,
    <<"C","3","-","M","1">>,
    <<"F","4","-","M","1">>,
    <<"A","1">>,
    <<"A","2">>,
    <<"M","2">>,
    <<"S","p","O","2">>,
    <<"O","2">>,
    <<"R","O","C">>,
    <<"C","h","i","n","1">>,
    <<"C","h","i","n","2">>,
    <<"L","E","G","1">>,
    <<"L","e","g"," ","E","M","G">>,
    <<"C","h","i","n","1","-","C","h","i","n","2">>
}

\* psg_load_raw found no alias table for the dataset (io.py:150-212)
InitAuto ==
    /\ chnNameTable = <<>>
    /\ rawChns \in SeqsUpTo(AutoRawNames, MaxRawChns)
    /\ chnNames = <<>>
    /\ cpc = "eeg"
    /\ AnnoIdle
    /\ EpoIdle
    /\ BatIdle

\* utils.py:75-108
AutoEeg ==
    /\ cpc = "eeg"
    /\ chnNames' = eeg_loop(without_leg(rawChns), raw_norm(without_leg(rawChns)),
                            Len(EegPositions)).chnNames
    /\ cpc' = "eog"
    /\ UNCHANGED <<chnNameTable, rawChns, annoVars, epoVars, batVars>>

\* utils.py:113-132
AutoEog ==
    /\ cpc = "eog"
    /\ chnNames' = eog_loop(chnNames, without_leg(rawChns), raw_norm(without_leg(rawChns)))
    /\ cpc' = "emg"
    /\ UNCHANGED <<chnNameTable, rawChns, annoVars, epoVars, batVars>>

\* utils.py:137-156
AutoEmg ==
    /\ cpc = "emg"
    /\ chnNames' = emg_channels(chnNames, without_leg(rawChns), raw_norm(without_leg(rawChns)))
    /\ cpc' = "returned"
    /\ UNCHANGED <<chnNameTable, rawChns, annoVars, epoVars, batVars>>

NextAuto == AutoEeg \/ AutoEog \/ AutoEmg

SpecAuto == InitAuto /\ [][NextAuto]_vars

(***************************************************************************)
(* Claims about heuristic resolution, checked under SpecAuto.              *)
(***************************************************************************)
\* the channels the heuristic looks at, and their normalized names
Kept == without_leg(rawChns)
Norm == raw_norm(Kept)

\* the channels of norm, SPO2 channels apart, whose normalized name contains
\* token
Holding(norm, token) ==
    {i \in 1..Len(norm) : Contains(token, norm[i]) /\ ~Contains(SPO2, norm[i])}

\* the least element of a non-empty set of indices
Least(S) == CHOOSE i \in S : \A j \in S : i <= j

\* reference tokens per position: of the opposite side of the head, and of
\* the same side
OppositeSide ==
    [ee \in {F3, C3, O1} |-> <<M2, A2>>] @@ [ee \in {F4, C4, O2} |-> <<M1, A1>>]
SameSide ==
    [ee \in {F3, C3, O1} |-> <<M1, A1>>] @@ [ee \in {F4, C4, O2} |-> <<M2, A2>>]

\* C14 (as amended): when the EEG loop has run, each EEG position whose
\* token directly followed by a reference token of the opposite side (M2,
\* then A2, for the left-sided F3, C3, O1; M1, then A1, for the right-sided
\* F4, C4, O2) is in the normalized name of a channel without SPO2 resolves
\* to the first channel holding the M form, else the first holding the A
\* form, whatever channels hold the bare position token; a position no such
\* channel holds resolves to the first channel holding its bare token, and is
\* unresolved when there is none.
C14_OppositeSidePreferred ==
    cpc = "eog" =>
        LET norm == Norm
        IN  \A n \in 1..Len(EegPositions) :
            LET ee == EegPositions[n]
                withM == Holding(norm, ee \o OppositeSide[ee][1])
                withA == Holding(norm, ee \o OppositeSide[ee][2])
            IN  IF withM # {} THEN Entry(chnNames, ee) = <<Kept[Least(withM)]>>
                ELSE IF withA # {} THEN Entry(chnNames, ee) = <<Kept[Least(withA)]>>
                ELSE IF Holding(norm, ee) # {} THEN Entry(chnNames, ee) = <<Kept[Least(Holding(norm, ee))]>>
                ELSE ee \notin DOMAIN chnNames

\* C14 (as stated): when the EEG loop has run, each EEG position whose token
\* followed by a reference token of its own side (M2 or A2 for F4, C4, O2;
\* M1 or A1 for F3, C3, O1) is in the normalized name of a channel without
\* SPO2 resolves to such a channel, not to one holding only the bare token.
C14_SameSidePreferred ==
    cpc = "eog" =>
        LET norm == Norm
        IN  \A n \in 1..Len(EegPositions) :
            LET ee == EegPositions[n]
                with == Holding(norm, ee \o SameSide[ee][1]) \cup Holding(norm, ee \o SameSide[ee][2])
            IN  with # {} =>
                    /\ ee \in DOMAIN chnNames
                    /\ \E i \in with : chnNames[ee] = Kept[i]

\* the EEG loop has run on channels where a bare C3 comes before a channel
\* holding C3A2, and where F4M1 comes after a channel of another position:
\* C3 and F4 are resolved to the channels with the opposite-side reference
C14_Witness ==
    /\ cpc = "eog"
    /\ LET norm == Norm
       IN  /\ Holding(norm, C3 \o A2) # {}
           /\ Holding(norm, C3 \o M2) = {}
           /\ Least(Holding(norm, C3)) < Least(Holding(norm, C3 \o A2))
           /\ chnNames[C3] = Kept[Least(Holding(norm, C3 \o A2))]
           /\ Holding(norm, F4 \o M1) # {}
           /\ chnNames[F4] = Kept[Least(Holding(norm, F4 \o M1))]

\* position n of the EEG loop is resolved by its bare token only: no channel
\* holds its token followed by one of its reference tokens
BareOnly(norm, n) ==
    LET ee == EegPositions[n]
    IN  /\ Holding(norm, ee \o ref_cand(ee)[1]) = {}
        /\ Holding(norm, ee \o ref_cand(ee)[2]) = {}
        /\ Holding(norm, ee) # {}

\* no position before position n was resolved with a reference token, so
\* that the loop looks for a default reference at position n
StillInferring(norm, n) ==
    \A m \in 1..(n - 1) :
        LET ee == EegPositions[m]
        IN  Holding(norm, ee \o ref_cand(ee)[1]) = {} /\ Holding(norm, ee \o ref_cand(ee)[2]) = {}

\* the generic reference tokens some channel holds, by their place in the scan
MatchingRefs(norm) == {k \in 1..Len(GenericRefs) : Holding(norm, GenericRefs[k]) # {}}

\* C15: when the EEG loop has run and a position was resolved by its bare
\* token only while the loop was still looking for a default reference, and
\* some channel holds a generic reference token, then the reference role M2
\* holds the channel found for the last of the tokens A1, A2, M1, M2 (in that
\* order) that any channel holds.
C15_LastMatchWins ==
    cpc = "eog" =>
        LET norm == Norm
            matching == MatchingRefs(norm)
            last == CHOOSE k \in matching : \A j \in matching : j <= k
        IN  (/\ \E n \in 1..Len(EegPositions) : BareOnly(norm, n) /\ StillInferring(norm, n)
             /\ matching # {})
                => Entry(chnNames, M2) = <<Kept[Least(Holding(norm, GenericRefs[last]))]>>

\* query substrings: role and reference tokens, parts of SPO2, the empty one
Queries ==
    {O2, C3, A1, C3 \o A2, EmgTokens[1], SPO2, <<"P">>, <<"2">>, <<>>}

\* C16: in heuristic resolution no role is resolved to a channel whose
\* normalized name contains SPO2; and for every query, find_str_in_list on
\* the normalized names the resolver starts from returns the first channel whose name contains the
\* query and does not contain SPO2, or none when there is no such channel.
C16_NeverSpo2 ==
    /\ \A c \in DOMAIN chnNames : ~Contains(SPO2, normalize(chnNames[c]))
    /\ cpc = "eeg" =>
          LET norm == Norm
          IN  \A q \in Queries :
              LET idx == find_str_in_list(q, norm)
                  ok(i) == Contains(q, norm[i]) /\ ~Contains(SPO2, norm[i])
              IN  IF \E i \in 1..Len(norm) : ok(i)
                  THEN idx \in 1..Len(norm) /\ ok(idx) /\ \A j \in 1..(idx - 1) : ~ok(j)
                  ELSE idx = 0

\* the resolver has returned on channels where an SPO2 channel, whose
\* normalized name contains O2, comes before another channel containing O2:
\* O2 is resolved to the latter
C16_Witness ==
    /\ cpc = "returned"
    /\ LET norm == Norm
       IN  \E i, j \in 1..Len(norm) :
              /\ i < j
              /\ Contains(SPO2, norm[i])
              /\ Contains(O2, norm[j]) /\ ~Contains(SPO2, norm[j])
              /\ \A k \in 1..(j - 1) : Contains(O2, norm[k]) => Contains(SPO2, norm[k])
              /\ chnNames[O2] = Kept[j]

\* C26: in heuristic resolution every channel whose normalized name contains
\* LEG is discarded before matching, and no role is resolved to such a channel,
\* whatever the letter case or punctuation of its raw name.
C26_LegDiscarded ==
    cpc = "returned" =>
        /\ \A i \in 1..Len(Kept) : ~Contains(LEG, normalize(Kept[i]))
        /\ \A c \in DOMAIN chnNames : ~Contains(LEG, normalize(chnNames[c]))

\* the EMG tokens that match a channel of norm
EmgMatching(norm) == {k \in 1..Len(EmgTokens) : Holding(norm, EmgTokens[k]) # {}}

\* the position of the first channel matched by the earliest matching EMG token
EmgPosition(norm) == Least(Holding(norm, EmgTokens[Least(EmgMatching(norm))]))

\* C27: in the map heuristic resolution returns, EMG is the channel matched by
\* the earliest of the tokens CHIN1, LCHIN, CHINL, CCHIN, CHINC, CHIN, EMG that
\* matches any channel, and is absent when none matches; EMGref is present only
\* if EMG is present and the normalized EMG name holds fewer than two CHIN and
\* fewer than two EMG; and EMGref, when present, is the channel at a position
\* of the channel list other than the position of EMG.
C27_EmgAndReference ==
    cpc = "returned" =>
        LET norm == Norm
            kept == Kept
        IN  /\ EMG \in DOMAIN chnNames <=> EmgMatching(norm) # {}
            /\ EMG \in DOMAIN chnNames => chnNames[EMG] = kept[EmgPosition(norm)]
            /\ EMGref \in DOMAIN chnNames =>
                  /\ EMG \in DOMAIN chnNames
                  /\ Count(norm[EmgPosition(norm)], <<"C","H","I","N">>) < 2
                  /\ Count(norm[EmgPosition(norm)], <<"E","M","G">>) < 2
                  /\ \E k \in 1..Len(EmgRefTokens) :
                        /\ Holding(norm, EmgRefTokens[k]) # {}
                        /\ Least(Holding(norm, EmgRefTokens[k])) # EmgPosition(norm)
                        /\ chnNames[EMGref] = kept[Least(Holding(norm, EmgRefTokens[k]))]

\* the resolver has returned EMG and EMGref where the EMG channel comes after a
\* channel that matches only a later EMG token, and that channel is EMGref
C27_Witness ==
    /\ cpc = "returned"
    /\ EMG \in DOMAIN chnNames /\ EMGref \in DOMAIN chnNames
    /\ LET norm == Norm
       IN  \E i, j \in 1..Len(norm) :
              /\ i < j
              /\ Contains(EmgTokens[6], norm[i]) /\ ~Contains(EmgTokens[1], norm[i])
              /\ Contains(EmgTokens[1], norm[j])
              /\ chnNames[EMG] = Kept[j]
              /\ chnNames[EMGref] = Kept[i]

\* the resolver has returned EMG without EMGref, because the EMG name holds
\* CHIN twice, although another channel matches an EMG reference token
C27_WitnessDoubleChin ==
    /\ cpc = "returned"
    /\ EMG \in DOMAIN chnNames /\ EMGref \notin DOMAIN chnNames
    /\ Count(normalize(chnNames[EMG]), <<"C","H","I","N">>) = 2
    /\ LET norm == Norm
       IN  \E i \in 1..Len(norm) : i # EmgPosition(norm) /\ Contains(EmgRefTokens[1], norm[i])

\* C29: in every map heuristic resolution returns, the raw name resolved for
\* M1 or M2 is neither equal to nor a substring of the raw name resolved for
\* any of F3, F4, C3, C4, O1, O2, E1, E2.
C29_ReferenceApart ==
    cpc = "returned" =>
        \A ref \in {M1, M2} \cap DOMAIN chnNames :
            \A k \in 1..Len(SignalRoles) :
                SignalRoles[k] \in DOMAIN chnNames =>
                    ~Contains(chnNames[ref], chnNames[SignalRoles[k]])

(***************************************************************************)
(* Epoch slicing, standardization and sequence packaging (epoch.py), as    *)
(* fast_preprocess chains them (api.py:175-185).  Array indices are        *)
(* counted from 1.                                                         *)
(***************************************************************************)
MaxChannels == 2
MaxSamples == 4
MaxLabels == 4

\* n_epochs of slice_epochs (epoch.py:47-55) for L samples per channel,
\* n_labels labels and samples_per_epoch samples per epoch
slice_n_epochs(L, n_labels, samples_per_epoch) ==
    LET n_epochs == L \div samples_per_epoch
    IN  IF n_labels < n_epochs THEN n_labels ELSE n_epochs

\* a truncation that keeps the last n labels
last_labels(labs, n) == SubSeq(labs, Len(labs) - n + 1, Len(labs))

\* labels[:n_epochs] (epoch.py:58)
first_labels(labs, n) == SubSeq(labs, 1, n)

\* a slicing that keeps every full epoch of the signal
slice_epochs_of_signal(signal, labs, rate, sec) ==
    LET C == signal.shape[1]
        samples_per_epoch == rate * sec
        n_epochs == signal.shape[2] \div samples_per_epoch
    IN  IF n_epochs = 0 THEN <<NoneArray, NoneArray>>
        ELSE <<ndarray(<<n_epochs, C, samples_per_epoch>>,
                       [e \in 1..n_epochs |-> [c \in 1..C |-> [t \in 1..samples_per_epoch |->
                           signal.data[c][(e - 1) * samples_per_epoch + t]]]]),
               ndarray(<<Len(labs)>>, labs)>>

\* a slicing that leaves out the epochs labelled Unknown (5)
slice_epochs_without_unknown(signal, labs, rate, sec) ==
    LET C == signal.shape[1]
        samples_per_epoch == rate * sec
        n_epochs == slice_n_epochs(signal.shape[2], Len(labs), samples_per_epoch)
        keep == SelectSeq([e \in 1..n_epochs |-> e], LAMBDA e : labs[e] # 5)
    IN  IF Len(keep) = 0 THEN <<NoneArray, NoneArray>>
        ELSE <<ndarray(<<Len(keep), C, samples_per_epoch>>,
                       [i \in 1..Len(keep) |-> [c \in 1..C |-> [t \in 1..samples_per_epoch |->
                           signal.data[c][(keep[i] - 1) * samples_per_epoch + t]]]]),
               ndarray(<<Len(keep)>>, [i \in 1..Len(keep) |-> labs[keep[i]]])>>

\* slice_epochs (epoch.py:23-68): the pair (epochs_data, labels)
slice_epochs(signal, labs, rate, sec) ==
    LET C == signal.shape[1]
        samples_per_epoch == rate * sec
        n_epochs == slice_n_epochs(signal.shape[2], Len(labs), samples_per_epoch)
    IN  IF n_epochs = 0 THEN <<NoneArray, NoneArray>>
        ELSE <<ndarray(<<n_epochs, C, samples_per_epoch>>,
                       [e \in 1..n_epochs |-> [c \in 1..C |-> [t \in 1..samples_per_epoch |->
                           signal.data[c][(e - 1) * samples_per_epoch + t]]]]),
               ndarray(<<n_epochs>>, first_labels(labs, n_epochs))>>

RECURSIVE Sum(_)
Sum(s) == IF s = <<>> THEN 0 ELSE Head(s) + Sum(Tail(s))

\* a sample is the pair (num, den2) that stands for the number
\* num / sqrt(den2); Sample(x) is the integer x
Sample(x) == [num |-> x, den2 |-> 1]

\* the first epoch's samples of channel c
column_of_first_epoch(tensor, c) == tensor.data[1][c]

\* column c of data_reshaped (epoch.py:103): the samples of channel c, epoch
\* after epoch
column(tensor, c) ==
    LET T == tensor.shape[3]
    IN  [k \in 1..(tensor.shape[1] * T) |-> tensor.data[((k - 1) \div T) + 1][c][((k - 1) % T) + 1]]

\* StandardScaler.fit on one column of integer samples: the number of
\* samples n, their sum, and n * n times their (population) variance
scaler_fit(col) ==
    LET x == [i \in 1..Len(col) |-> col[i].num]
    IN  [n |-> Len(x),
         sum |-> Sum(x),
         nnvar |-> Len(x) * Sum([i \in 1..Len(x) |-> x[i] * x[i]]) - Sum(x) * Sum(x)]

\* StandardScaler.transform of an integer sample x: (x - mean) / scale, where
\* scale is the standard deviation, and 1 when the variance is zero
scaler_transform(x, fit) ==
    [num |-> fit.n * x.num - fit.sum,
     den2 |-> IF fit.nnvar = 0 THEN fit.n * fit.n ELSE fit.nnvar]

\* standardize_epochs (epoch.py:75-109)
standardize_epochs(tensor) ==
    IF tensor.none THEN NoneArray
    ELSE IF tensor.shape[1] = 0 THEN tensor
    ELSE ndarray(tensor.shape,
                 [e \in 1..tensor.shape[1] |-> [c \in 1..tensor.shape[2] |->
                     [t \in 1..tensor.shape[3] |->
                         scaler_transform(tensor.data[e][c][t], scaler_fit(column(tensor, c)))]]])

\* n_seq of package_sequences (epoch.py:144-145)
package_n_seq(N, q) == N \div q

\* a packaging that starts each sequence one epoch after the previous one
package_sequences_sliding(tensor, labs, q) ==
    IF tensor.none \/ package_n_seq(tensor.shape[1], q) = 0 THEN <<NoneArray, NoneArray>>
    ELSE LET n_seq == package_n_seq(tensor.shape[1], q)
         IN  <<ndarray(<<n_seq, q, tensor.shape[2], tensor.shape[3]>>,
                       [s \in 1..n_seq |-> [j \in 1..q |-> tensor.data[s - 1 + j]]]),
               ndarray(<<n_seq, q>>,
                       [s \in 1..n_seq |-> [j \in 1..q |-> labs.data[s - 1 + j]]])>>

\* package_sequences (epoch.py:116-157): the pair (seq_data, seq_labels)
package_sequences(tensor, labs, q) ==
    IF tensor.none THEN <<NoneArray, NoneArray>>
    ELSE LET n_seq == package_n_seq(tensor.shape[1], q)
         IN  IF n_seq = 0 THEN <<NoneArray, NoneArray>>
             ELSE <<ndarray(<<n_seq, q, tensor.shape[2], tensor.shape[3]>>,
                            [s \in 1..n_seq |-> [j \in 1..q |-> tensor.data[(s - 1) * q + j]]]),
                    ndarray(<<n_seq, q>>,
                            [s \in 1..n_seq |-> [j \in 1..q |-> labs.data[(s - 1) * q + j]]])>>

\* the samples of one processed channel: a ramp or a flat line
Waveforms == {"ramp", "flat"}
Samples(w, T) == [t \in 1..T |-> IF w = "ramp" THEN Sample(t) ELSE Sample(1)]

\* the stacked signals of C channels and T samples (api.py:175)
Signals(C, T) == {ndarray(<<C, T>>, [c \in 1..C |-> Samples(w[c], T)]) : w \in [1..C -> Waveforms]}

\* stage sequences, sampling rates, epoch durations and sequence lengths
StageValues == {2, 5}
FsValues == {1, 2}
EpochSecValues == {1, 2}
SeqLenValues == {1, 2}

\* epoch tensors without epochs, with their labels
EmptyEpochs == {ndarray(<<0, C, T>>, <<>>) : C \in 1..MaxChannels, T \in 1..MaxSamples}

\* the signal and the labels are ready for slicing (api.py:175-177), or
\* standardize_epochs is called on nothing or on a tensor without epochs
InitEpoch ==
    /\ fs \in FsValues
    /\ epoch_sec \in EpochSecValues
    /\ seq_len \in SeqLenValues
    /\ \/ /\ signal_data \in UNION {Signals(C, T) : C \in 1..MaxChannels, T \in 0..MaxSamples}
          /\ labels \in SeqsUpTo(StageValues, MaxLabels)
          /\ epochs = NoneArray
          /\ l_epochs = NoneArray
          /\ epc = "slice"
       \/ /\ signal_data = NoneArray
          /\ labels = <<>>
          /\ epochs \in EmptyEpochs \cup {NoneArray}
          /\ l_epochs = IF epochs.none THEN NoneArray ELSE ndarray(<<0>>, <<>>)
          /\ epc = "standardize"
    /\ seqs = NoneArray
    /\ l_seqs = NoneArray
    /\ AnnoIdle
    /\ ChnIdle
    /\ BatIdle

\* epochs, l_epochs = slice_epochs(signal_data, labels, fs) (api.py:177-179)
SliceEpochs ==
    /\ epc = "slice"
    /\ epochs' = slice_epochs(signal_data, labels, fs, epoch_sec)[1]
    /\ l_epochs' = slice_epochs(signal_data, labels, fs, epoch_sec)[2]
    /\ epc' = IF epochs'.none THEN "skipped" ELSE "standardize"
    /\ UNCHANGED <<signal_data, labels, fs, epoch_sec, seq_len, seqs, l_seqs, annoVars, chnVars, batVars>>

\* epochs = standardize_epochs(epochs) (api.py:181)
StandardizeEpochs ==
    /\ epc = "standardize"
    /\ epochs' = standardize_epochs(epochs)
    /\ epc' = "package"
    /\ UNCHANGED <<signal_data, labels, fs, epoch_sec, seq_len, l_epochs, seqs, l_seqs, annoVars, chnVars, batVars>>

\* seqs, l_seqs = package_sequences(epochs, l_epochs, seq_len) (api.py:183-185)
PackageSequences ==
    /\ epc = "package"
    /\ seqs' = package_sequences(epochs, l_epochs, seq_len)[1]
    /\ l_seqs' = package_sequences(epochs, l_epochs, seq_len)[2]
    /\ epc' = IF seqs'.none THEN "skipped" ELSE "saved"
    /\ UNCHANGED <<signal_data, labels, fs, epoch_sec, seq_len, epochs, l_epochs, annoVars, chnVars, batVars>>

NextEpoch == SliceEpochs \/ StandardizeEpochs \/ PackageSequences

SpecEpoch == InitEpoch /\ [][NextEpoch]_vars

(***************************************************************************)
(* Claims about the epoch packager, checked under SpecEpoch.               *)
(***************************************************************************)
\* the smaller of two numbers
Min(a, b) == IF a <= b THEN a ELSE b

\* C17: slice_epochs, on a signal of T samples per channel and with
\* samples_per_epoch = fs * epoch_sec, returns an epoch tensor of exactly
\* n = min(floor(T / samples_per_epoch), len(labels)) epochs and a label
\* array of exactly n entries, and returns (None, None) exactly when n = 0;
\* 301 epochs' worth of samples with 300 labels give 300 epochs, and no
\* labels give n = 0.
C17_SliceCount ==
    [][epc = "slice" =>
        LET samples_per_epoch == fs * epoch_sec
            n == Min(signal_data.shape[2] \div samples_per_epoch, Len(labels))
        IN  /\ epochs'.none <=> n = 0
            /\ l_epochs'.none <=> n = 0
            /\ n # 0 =>
                  /\ epochs'.shape = <<n, signal_data.shape[1], samples_per_epoch>>
                  /\ Len(epochs'.data) = n
                  /\ l_epochs'.shape = <<n>>
                  /\ Len(l_epochs'.data) = n
            /\ slice_n_epochs(301 * (100 * 30), 300, 100 * 30) = 300
            /\ slice_n_epochs(301 * (100 * 30), 0, 100 * 30) = 0]_vars

\* the signal held one full epoch more than there are labels, and slicing
\* returned as many epochs as labels
C17_Witness ==
    /\ epc = "standardize"
    /\ ~signal_data.none
    /\ Len(labels) >= 2
    /\ signal_data.shape[2] \div (fs * epoch_sec) = Len(labels) + 1
    /\ epochs.shape[1] = Len(labels)
    /\ l_epochs.shape[1] = Len(labels)

\* C18: package_sequences, on N epochs, returns exactly floor(N / seq_len)
\* sequences, sequence s holding epochs s*seq_len .. s*seq_len+seq_len-1 and
\* their labels in the original order; the trailing N mod seq_len epochs are
\* left out and nothing is padded; it returns (None, None) when
\* floor(N / seq_len) is 0 (or there are no epochs at all); 45 epochs with
\* seq_len 20 give 2 sequences and 19 epochs none.
C18_PackageCount ==
    [][epc = "package" =>
        IF epochs.none THEN seqs'.none /\ l_seqs'.none
        ELSE LET N == epochs.shape[1]
                 n == N \div seq_len
             IN  /\ seqs'.none <=> n = 0
                 /\ l_seqs'.none <=> n = 0
                 /\ n # 0 =>
                       /\ seqs'.shape = <<n, seq_len, epochs.shape[2], epochs.shape[3]>>
                       /\ l_seqs'.shape = <<n, seq_len>>
                       /\ DOMAIN seqs'.data = 1..n
                       /\ DOMAIN l_seqs'.data = 1..n
                       /\ \A s \in 0..(n - 1) :
                             /\ DOMAIN seqs'.data[s + 1] = 1..seq_len
                             /\ DOMAIN l_seqs'.data[s + 1] = 1..seq_len
                             /\ \A j \in 0..(seq_len - 1) :
                                   /\ seqs'.data[s + 1][j + 1] = epochs.data[s * seq_len + j + 1]
                                   /\ l_seqs'.data[s + 1][j + 1] = l_epochs.data[s * seq_len + j + 1]
                 /\ package_n_seq(45, 20) = 2
                 /\ package_n_seq(19, 20) = 0]_vars

\* three epochs were packaged by two: one sequence, the third epoch left out
C18_Witness ==
    /\ epc = "saved"
    /\ seq_len = 2
    /\ epochs.shape[1] = 3
    /\ seqs.shape[1] = 1
    /\ seqs.data = <<<<epochs.data[1], epochs.data[2]>>>>
    /\ l_seqs.data = <<<<l_epochs.data[1], l_epochs.data[2]>>>>

\* C19: when slicing, standardizing and packaging a C-channel signal of T
\* samples with labels L and sequence length q has produced sequences, the
\* sequence tensor has shape (floor(min(floor(T/spe), |L|) / q), q, C, spe),
\* with spe = fs * epoch_sec, and the label at (s, j) is L[s*q + j]; for one
\* epoch of 3000 samples at 100 Hz, one label and q = 1 the count is 1.
C19_EndToEnd ==
    epc = "saved" =>
        LET spe == fs * epoch_sec
            n == Min(signal_data.shape[2] \div spe, Len(labels)) \div seq_len
        IN  /\ seqs.shape = <<n, seq_len, signal_data.shape[1], spe>>
            /\ l_seqs.shape = <<n, seq_len>>
            /\ \A s \in 0..(n - 1), j \in 0..(seq_len - 1) :
                  l_seqs.data[s + 1][j + 1] = labels[s * seq_len + j + 1]
            /\ \A s \in 1..n, j \in 1..seq_len :
                  /\ DOMAIN seqs.data[s][j] = 1..signal_data.shape[1]
                  /\ \A c \in 1..signal_data.shape[1] : DOMAIN seqs.data[s][j][c] = 1..spe
            /\ package_n_seq(slice_n_epochs(3000, 1, 100 * 30), 1) = 1

\* a 2-channel signal of exactly one epoch, with the label sequence [2] and
\* sequence length 1, came out as a tensor of shape (1, 1, 2, spe) with the
\* labels [[2]]
C19_Witness ==
    /\ epc = "saved"
    /\ signal_data.shape = <<2, fs * epoch_sec>>
    /\ fs * epoch_sec > 1
    /\ labels = <<2>>
    /\ seq_len = 1
    /\ seqs.shape = <<1, 1, 2, fs * epoch_sec>>
    /\ l_seqs.data = <<<<2>>>>

\* the sum of f over the samples of channel c of an epoch tensor
SumOver(tensor, c, f(_)) ==
    Sum([e \in 1..tensor.shape[1] |->
            Sum([t \in 1..tensor.shape[3] |-> f(tensor.data[e][c][t])])])

\* channel c of an epoch tensor holds one value throughout
Constant(tensor, c) ==
    \A e \in 1..tensor.shape[1], t \in 1..tensor.shape[3] :
        tensor.data[e][c][t] = tensor.data[1][c][1]

\* channel c of a standardized tensor, over all its epochs and samples, has
\* mean 0: the values num / sqrt(den2) share den2, and their numerators sum to 0
MeanZero(tensor, c) ==
    /\ \A e \in 1..tensor.shape[1], t \in 1..tensor.shape[3] :
          tensor.data[e][c][t].den2 = tensor.data[1][c][1].den2
    /\ SumOver(tensor, c, LAMBDA z : z.num) = 0

\* channel c of a standardized tensor of mean 0 has standard deviation 1: the
\* squares num * num / den2 sum to the number of samples
StdOne(tensor, c) ==
    SumOver(tensor, c, LAMBDA z : z.num * z.num)
        = tensor.shape[1] * tensor.shape[3] * tensor.data[1][c][1].den2

\* C20 (as amended): standardize_epochs returns a tensor without epochs
\* unchanged; for a tensor with epochs it returns a tensor of the same
\* shape in which each channel that is not constant has, over all epochs
\* and samples together, mean 0 and standard deviation 1, and each channel
\* that is constant over all epochs and samples is 0 throughout.
C20_StandardizedUnlessConstant ==
    [][(epc = "standardize" /\ ~epochs.none) =>
        IF epochs.shape[1] = 0 THEN epochs' = epochs
        ELSE /\ epochs'.shape = epochs.shape
             /\ \A c \in 1..epochs.shape[2] :
                   /\ MeanZero(epochs', c)
                   /\ IF Constant(epochs, c)
                      THEN \A e \in 1..epochs.shape[1], t \in 1..epochs.shape[3] :
                               epochs'.data[e][c][t].num = 0
                      ELSE StdOne(epochs', c)]_vars

\* C20 (as stated): standardize_epochs returns a tensor without epochs
\* unchanged, and for a tensor with epochs a tensor of the same shape in
\* which every channel has, over all epochs and samples together, mean 0
\* and standard deviation 1.
C20_Standardized ==
    [][(epc = "standardize" /\ ~epochs.none) =>
        IF epochs.shape[1] = 0 THEN epochs' = epochs
        ELSE /\ epochs'.shape = epochs.shape
             /\ \A c \in 1..epochs.shape[2] : MeanZero(epochs', c) /\ StdOne(epochs', c)]_vars

\* two epochs of two channels were standardized: the sliced signal held a
\* ramp, whose epochs have different means, and a flat line
C20_Witness ==
    /\ epc = "package"
    /\ ~signal_data.none
    /\ epochs.shape[1] = 2
    /\ epochs.shape[2] = 2
    /\ epochs.shape[3] = 2
    /\ signal_data.data[1] = Samples("ramp", signal_data.shape[2])
    /\ signal_data.data[2] = Samples("flat", signal_data.shape[2])
    /\ StdOne(epochs, 1)
    /\ ~StdOne(epochs, 2)

\* C28: slice_epochs keeps samples and labels aligned: sample t of channel c
\* of returned epoch k is sample k * samples_per_epoch + t of channel c of the
\* input signal, returned label k is input label k, so that the returned
\* labels are a prefix of the input labels, and no epoch is removed or
\* reordered because its label is Unknown (5).
C28_SliceAlignment ==
    [][epc = "slice" /\ ~epochs'.none =>
        LET samples_per_epoch == fs * epoch_sec
            n == Min(signal_data.shape[2] \div samples_per_epoch, Len(labels))
        IN  /\ Len(epochs'.data) = n
            /\ l_epochs'.data = SubSeq(labels, 1, n)
            /\ \A k \in 1..n :
                  /\ l_epochs'.data[k] = labels[k]
                  /\ \A c \in 1..signal_data.shape[1] : \A t \in 1..samples_per_epoch :
                        epochs'.data[k][c][t] =
                            signal_data.data[c][(k - 1) * samples_per_epoch + t]]_vars

\* slicing returned two epochs or more of a ramp, the first of them labelled
\* Unknown, and the labels were longer than the epochs
C28_Witness ==
    /\ epc = "standardize"
    /\ ~signal_data.none /\ ~epochs.none
    /\ signal_data.data[1] = Samples("ramp", signal_data.shape[2])
    /\ epochs.shape[1] >= 2
    /\ Len(labels) > epochs.shape[1]
    /\ labels[1] = 5 /\ labels[2] = 2
    /\ l_epochs.data[1] = 5
    /\ epochs.data[2][1][1] = Sample(fs * epoch_sec + 1)

(***************************************************************************)
(* The two entry points, cli.main and api.fast_preprocess: the output      *)
(* folders, the dataset rules, and the loop over the recordings.  A        *)
(* recording is described by its channel labels and by what each stage     *)
(* of the pipeline makes of its files.                                     *)
(***************************************************************************)
MaxSubjects == 2

Rule(fmt_psg, fmt_anno, reader) == [fmt_psg |-> fmt_psg, fmt_anno |-> fmt_anno, reader |-> reader]

\* DATASET_RULES (config.py:152-189)
DATASET_RULES ==
       [d \in {"SHHS1", "SHHS2", "CCSHS", "SOF", "CFS", "MROS1", "MROS2", "MESA",
               "HPAP1", "HPAP2", "ABC", "HomePAP"} |-> Rule("edf", "xml", "xml")]
    @@ [d \in {"MNC", "SSC", "DHC", "CNC"} |-> Rule("edf", "eannot", "eannot")]
    @@ ("STAGES" :> Rule("edf", "csv", "stages_csv"))
    @@ ("MASS13" :> Rule("edf", "txt", "mass_txt"))
    @@ ("HMC" :> Rule("edf", "txt", "hmc_txt"))
    @@ ("NCHSDB" :> Rule("edf", "tsv", "tsv"))
    @@ ("PHY" :> Rule("mat", "mat", "phy_mat"))
    @@ ("DCSM" :> Rule("edf", "ids", "dcsm_ids"))
    @@ ("DOD" :> Rule("h5", "h5", "h5"))
    @@ ("WSC" :> Rule("edf", "txt", "wsc_txt"))
    @@ ("ISRC" :> Rule("edf", "STA", "None"))

\* DEFAULT_PROCESS_CONFIG (config.py:194-205), the filter bands apart
DEFAULT_PROCESS_CONFIG ==
    [sample_rate |-> 100, epoch_sec |-> 30, seq_len |-> 20, channels |-> <<F4, E1>>,
     standardize |-> TRUE]

\* the channels, the sampling rate and the sequence length of a run: cli.main
\* takes them from DEFAULT_PROCESS_CONFIG (cli.py:97, 149, 172, 189, 198),
\* fast_preprocess from the defaults of its parameters (api.py:13-17); both
\* leave epoch_sec to the default of slice_epochs (epoch.py:23)
params(e) ==
    IF e = "cli"
    THEN [channels |-> DEFAULT_PROCESS_CONFIG.channels, fs |-> DEFAULT_PROCESS_CONFIG.sample_rate,
          seq_len |-> DEFAULT_PROCESS_CONFIG.seq_len, epoch_sec |-> 30]
    ELSE [channels |-> <<F4, E1>>, fs |-> 100, seq_len |-> 20, epoch_sec |-> 30]

\* DATASET_RULES.get(name, DATASET_RULES['SHHS1']) (cli.py:96)
rules_get_default(name) ==
    IF name \in DOMAIN DATASET_RULES THEN DATASET_RULES[name] ELSE DATASET_RULES["SHHS1"]

\* DATASET_RULES.get(name) (api.py:87)
rules_get(name) == IF name \in DOMAIN DATASET_RULES THEN DATASET_RULES[name] ELSE NoRules

\* the rules an entry point works with
rules_of(e, name) == IF e = "cli" THEN rules_get_default(name) ELSE rules_get(name)

\* matched_chns of psg_load_raw (io.py:204-211) for the recordings of MROS1,
\* which has an alias table, and of STAGES and of names CHANNEL_MAPPING does
\* not hold, which have none
psg_load_raw(ch_names, name) ==
    IF name = "MROS1" THEN get_expected_chn_names(MROS1, ch_names)
    ELSE get_auto_chn_names(ch_names)

\* matched_chns.get(role): <<>> stands for None
chns_get(matched, role) == IF role \in DOMAIN matched THEN matched[role] ELSE <<>>

\* the role a target is referenced to in cli.main (cli.py:158-162); <<>> is None
ref_target_cli(target) ==
    IF target \in {F4, C4, O2} THEN M1
    ELSE IF target \in {F3, C3, O1} THEN M2
    ELSE <<>>

\* the role a target is referenced to in fast_preprocess (api.py:151-156)
ref_target_api(target) ==
    IF Contains(EMG, target) THEN <<>>
    ELSE IF target \in {F3, C3, O1} THEN M2
    ELSE IF target \in {F4, C4, O2} THEN M1
    ELSE M2

ref_target(e, target) == IF e = "cli" THEN ref_target_cli(target) ELSE ref_target_api(target)

\* what process_single_channel is called with for target (cli.py:164-176,
\* api.py:158-167): the channel, its reference and the filter band
derivation(e, matched, target) ==
    [ch |-> chns_get(matched, target),
     ref |-> chns_get(matched, ref_target(e, target)),
     ftype |-> IF Contains(EMG, target) THEN "emg" ELSE "eeg"]

\* the np.save calls of one recording (cli.py:213-216, api.py:197-200)
save_calls(sigs, n_seq) ==
    [k \in 1..(2 * n_seq) |->
        [kind |-> IF k % 2 = 1 THEN "seq" ELSE "label", i |-> (k - 1) \div 2, sigs |-> sigs]]

Outcome(status, files) == [status |-> status, files |-> files]

\* one pass of the loop body (cli.py:121-219, api.py:117-205) over recording
\* sub: how the pass ended and the files it wrote
subject_outcome(e, name, rls, sub) ==
    LET par == params(e)
        matched == sub.matched[name]
        sigs == [k \in 1..Len(par.channels) |-> derivation(e, matched, par.channels[k])]
        n_labels == IF rls.reader = "None" THEN 0 ELSE sub.n_labels
        n_epochs == slice_n_epochs(sub.seconds * par.fs, n_labels, par.fs * par.epoch_sec)
        n_seq == package_n_seq(n_epochs, par.seq_len)
        calls == save_calls(sigs, n_seq)
    IN  IF ~sub.anno THEN Outcome("no annotation", <<>>)
        ELSE IF ~sub.raw_ok THEN Outcome("no raw", <<>>)
        ELSE IF sub.labels_raise /\ rls.reader # "None" THEN Outcome("exception", <<>>)
        ELSE IF n_labels = 0 THEN Outcome("no labels", <<>>)
        ELSE IF sigs[1].ch = <<>> THEN Outcome("channels", <<>>)
        ELSE IF sub.proc = "raises" THEN Outcome("exception", <<>>)
        ELSE IF sub.proc = "none" \/ \E k \in 1..Len(sigs) : sigs[k].ch = <<>>
             THEN Outcome("channels", <<>>)
        ELSE IF n_epochs = 0 THEN Outcome("no epochs", <<>>)
        ELSE IF n_seq = 0 THEN Outcome("no sequences", <<>>)
        ELSE IF sub.save_fails_at \in 1..Len(calls)
             THEN Outcome("exception", SubSeq(calls, 1, sub.save_fails_at - 1))
        ELSE Outcome("saved", calls)

\* a pass that ends the loop when the recording was not saved
after_subject_abort(out) == IF out.status = "saved" THEN "loop" ELSE "aborted"

\* where control goes after a pass: `continue`, `except Exception: pass` and
\* the end of the body all lead to the next recording (cli.py:218-219,
\* api.py:204-205)
after_subject(out) == "loop"

\* dataset identifiers: with an alias table, without one, and unknown
Datasets == {"MROS1", "STAGES", "NOPE"}

\* a recording of 45 epochs that every stage accepts: its channel labels, with
\* the matched_chns psg_load_raw returns for them when called for each dataset
\* identifier (cli.py:138, api.py:134), and what the other stages make of it
Recording(ch_names) ==
    [ch_names |-> ch_names,
     matched |-> [name \in Datasets |-> psg_load_raw(ch_names, name)],
     anno |-> TRUE, raw_ok |-> TRUE, labels_raise |-> FALSE, n_labels |-> 45,
     seconds |-> 45 * 30, proc |-> "ok", save_fails_at |-> 0]

Good == Recording(<<F4, A1, <<"L","O","C">>, A2>>)

\* recordings: accepted ones, and one for each way a pass can fail
Subjects == {
    Good,
    [Good EXCEPT !.anno = FALSE],
    [Good EXCEPT !.raw_ok = FALSE],
    [Good EXCEPT !.labels_raise = TRUE],
    [Good EXCEPT !.proc = "none"],
    [Good EXCEPT !.seconds = 29],
    [Good EXCEPT !.n_labels = 19],
    [Good EXCEPT !.save_fails_at = 2]
}

\* no entry point has been called yet
InitBatch ==
    /\ BatIdle
    /\ AnnoIdle
    /\ ChnIdle
    /\ EpoIdle

\* entry point e is called for dataset name, with out_root/name present or
\* not and with the recordings the scan will find, and prepares the output
\* folders (cli.py:85-91, api.py:75-84): fast_preprocess warns when out_dir
\* exists and overwrite is False, and goes on
PrepareOutput(e, name, ow, ex, files) ==
    /\ bpc = "idle"
    /\ entry' = e
    /\ dataset' = name
    /\ overwrite' = ow
    /\ out_exists' = ex
    /\ psg_files' = files
    /\ made_dirs' = TRUE
    /\ bpc' = "rules"
    /\ UNCHANGED <<rules, outcomes, success_count, annoVars, chnVars, epoVars>>

\* the dataset rules (cli.py:96, api.py:87-90): fast_preprocess returns when
\* there are none
LoadRules ==
    /\ bpc = "rules"
    /\ rules' = rules_of(entry, dataset)
    /\ bpc' = IF rules_of(entry, dataset) = NoRules THEN "returned" ELSE "loop"
    /\ UNCHANGED <<entry, dataset, overwrite, out_exists, psg_files, made_dirs, outcomes,
                   success_count, annoVars, chnVars, epoVars>>

\* one pass of the loop (cli.py:120-219, api.py:116-205)
Subject ==
    /\ bpc = "loop"
    /\ Len(outcomes) < Len(psg_files)
    /\ \E out \in {subject_outcome(entry, dataset, rules, psg_files[Len(outcomes) + 1])} :
           /\ outcomes' = Append(outcomes, out)
           /\ success_count' = IF entry = "api" /\ out.status = "saved"
                               THEN success_count + 1 ELSE success_count
           /\ bpc' = after_subject(out)
    /\ UNCHANGED <<entry, dataset, overwrite, out_exists, psg_files, rules, made_dirs,
                   annoVars, chnVars, epoVars>>

\* the loop is through the recordings (cli.py:220, api.py:208)
Finished ==
    /\ bpc = "loop"
    /\ Len(outcomes) = Len(psg_files)
    /\ bpc' = "finished"
    /\ UNCHANGED <<entry, dataset, overwrite, out_exists, psg_files, rules, made_dirs,
                   outcomes, success_count, annoVars, chnVars, epoVars>>

NextBatch ==
    \/ \E e \in {"cli", "api"}, name \in Datasets, ex \in BOOLEAN,
          files \in SeqsUpTo(Subjects, MaxSubjects) :
          \E ow \in (IF e = "api" THEN BOOLEAN ELSE {FALSE}) :
              PrepareOutput(e, name, ow, ex, files)
    \/ LoadRules
    \/ Subject
    \/ Finished

SpecBatch == InitBatch /\ [][NextBatch]_vars

\* the loop is a for loop over a finite list and every pass returns or is
\* caught, so the next pass, or the end of the loop, is reached when it is due
SpecBatchLive == SpecBatch /\ WF_vars(Subject) /\ WF_vars(Finished)

(***************************************************************************)
(* Claims about the entry points, checked under SpecBatch and, where the   *)
(* loop has to come to its end, under SpecBatchLive.                       *)
(***************************************************************************)
\* C21: in both entry points a dataset identifier that is not a key of
\* DATASET_RULES is a hard configuration error: no other dataset's rules are
\* put in its place and no recording is processed.
C21_UnknownDatasetIsError ==
    dataset \notin DOMAIN DATASET_RULES =>
        /\ rules = NoRules
        /\ outcomes = <<>>
        /\ bpc \notin {"loop", "finished"}

\* the sequences a recording yields under the parameters of entry point e
n_sequences(e, sub) ==
    LET n_epochs == Min(sub.seconds \div params(e).epoch_sec, sub.n_labels)
    IN  n_epochs \div params(e).seq_len

\* C22: a pass of the loop that fails, by an exception or by an absent or
\* empty result at any stage, skips that recording only: the loop goes on to
\* the next recording and leaves the earlier outcomes alone; the loop ends,
\* and ends after the last recording; and the success count goes up, by one,
\* only in a pass that saved every sequence of its recording.
C22_LoopGoesOn ==
    /\ [][bpc = "loop" /\ Len(outcomes) < Len(psg_files) =>
            LET sub == psg_files[Len(outcomes) + 1]
            IN  /\ bpc' = "loop"
                /\ Len(outcomes') = Len(outcomes) + 1
                /\ SubSeq(outcomes', 1, Len(outcomes)) = outcomes
                /\ success_count' # success_count =>
                      /\ success_count' = success_count + 1
                      /\ n_sequences(entry, sub) > 0
                      /\ Len(outcomes'[Len(outcomes')].files) = 2 * n_sequences(entry, sub)]_vars
    /\ [](bpc = "finished" => Len(outcomes) = Len(psg_files))
    /\ (bpc = "loop" ~> bpc = "finished")

\* fast_preprocess is through two recordings: the first failed while its
\* files were being saved, the second was saved and is the one counted
C22_Witness ==
    /\ bpc = "finished"
    /\ entry = "api"
    /\ Len(psg_files) = 2
    /\ outcomes[1].status = "exception" /\ outcomes[1].files # <<>>
    /\ outcomes[2].status = "saved"
    /\ success_count = 1

\* the other entry point
other(e) == IF e = "cli" THEN "api" ELSE "cli"

\* C23: on a dataset that has rules, cli.main and fast_preprocess run the same
\* logic under the default configuration: every target role, E1, E2 and EMG
\* included, is referenced to the same role, and every recording is skipped
\* or saved alike, with the same files.
C23_SameLogic ==
    bpc = "finished" /\ dataset \in DOMAIN DATASET_RULES =>
        /\ \A k \in 1..Len(expected) : ref_target_cli(expected[k]) = ref_target_api(expected[k])
        /\ \A k \in 1..Len(outcomes) :
              outcomes[k] = subject_outcome(other(entry), dataset,
                                            rules_of(other(entry), dataset), psg_files[k])

\* C24: when out_root/dataset exists and overwrite is False, fast_preprocess
\* writes no file under that directory.
C24_NoOverwrite ==
    entry = "api" /\ out_exists /\ ~overwrite =>
        \A k \in 1..Len(outcomes) : outcomes[k].files = <<>>

=============================================================================
